---- MODULE Spec2Model ----
(***************************************************************************)
(* Model of the analytical pipeline's persistence layer: the upserts of    *)
(* KPIEngine.persist_kpi, TrendEngine.persist_trends and                   *)
(* InsightGenerator.persist_insight, the batch tasks that drive them, and  *)
(* the order in which a pipeline run executes them.                        *)
(*                                                                         *)
(* Time is counted in ticks; a calendar day is TicksPerDay ticks long.     *)
(* A table is a sequence of rows and a row's id is its position.           *)
(* A session's open transaction is the sequence of its uncommitted writes. *)
(***************************************************************************)
EXTENDS Integers, Sequences, FiniteSets, TLC

\* ------------------------------------------------------------------ bounds
TicksPerDay == 2
MaxTime == 2
MaxCalls == 2
MaxTrendDays == 3
MaxTrendRuns == 2
MaxLongDays == 4
MaxLongRuns == 3
MaxBatchRuns == 3
MaxWords == 3
MaxRecords == 3
MaxTexts == 10
MaxKpis == 5

\* The run requests accepted for the connector
MaxIngests == 2

\* The records that arrive after the start
MaxArrivals == 2

\* The limit process_new_texts is invoked with when it runs again and again
TextRunLimit == 1

\* The rows of text_summary up to which the task is invoked again
MaxSummaries == 3

\* ------------------------------------------------------- program constants
\* timedelta(days=3): the recency horizon of persist_trends
RecentDays == 3
\* window_long: int = 30
WindowLongDays == 30
\* hours_activity: int = 168
ActivityHours == 168
\* days_period: int = 30
PeriodDays == 30
\* text_field[:1000]
TextFieldLen == 1000
\* limit: int = 10
TextLimit == 10

VARIABLES
    now,          \* datetime.utcnow(), in ticks
    kpi_summary,  \* committed rows of table kpi_summary
    kpiTxn,       \* writes the KPI session has executed and not yet committed
    kpiLast,      \* the last persist_kpi call: its arguments, time and outcome
    kpiPrev,      \* the persist_kpi call before that one
    calls,        \* number of persist_kpi and persist_insight calls made
    ai_insights,  \* committed rows of table ai_insights
    insTxn,       \* writes the insight session has executed and not yet committed
    insLast,      \* the last persist_insight call: its arguments, time and outcome
    insLatest,    \* per (client, day), the data of the last call that returned True
    conc,         \* per concurrent session, where its persist_insight call stands
    trend_signals,\* committed rows of table trend_signals
    trendLast,    \* the last trend detection run: its batch, time and outcome
    trendPre,     \* trend_signals as it was when that run started
    trendRuns,    \* number of trend detection runs made
    kpiBatch,     \* the batch task compute_kpis_for_recent: its loop and results
    insBatch,     \* the batch task generate_recent_insights: its loop and results
    batchRuns,    \* number of batch tasks started
    text_summary, \* committed rows of table text_summary
    textTask,     \* the task process_new_texts: its loop and report
    trendTask,    \* the task detect_recent_trends: its state and summary
    pipeline,     \* the phase of the pipeline run
    sent,         \* a call of analyze_sentiment (data_insights): text, state, result
    svc,          \* a call of analyze_sentiment_with_ollama (services)
    gen,          \* a call of generate_insights_for_client: what it pulled and returned
    det,          \* a call of detect_trends_for_sector: what it counted and returned
    kw,           \* a call of extract_keywords: text, max_keywords and the list returned
    calc,         \* a call of compute_kpis_for_client: the rows read and the KPIs returned
    anom,         \* a request for anomaly detection: where it stands and its report
    source,       \* the data source row of the connector: status, last_run_at
    etl,          \* rows of table etl_history
    ingest,       \* the ingest_source tasks accepted: where each one stands
    processed_data \* rows of table processed_data, oldest first

vars == <<now, kpi_summary, kpiTxn, kpiLast, kpiPrev, calls,
          trend_signals, trendLast, trendPre, trendRuns,
          ai_insights, insTxn, insLast, insLatest, conc,
          kpiBatch, insBatch, batchRuns, text_summary, textTask, trendTask, pipeline,
          sent, svc, gen, det, kw, calc, anom, source, etl, ingest,
          processed_data>>

analysisVars == <<sent, svc, gen, det>>

connVars == <<source, etl, ingest>>

dataVars == <<processed_data>>

moreVars == <<kw, calc, anom, connVars, dataVars>>

taskVars == <<kpiBatch, insBatch, batchRuns>>

pipeVars == <<text_summary, textTask, trendTask, pipeline>>

trendVars == <<trend_signals, trendLast, trendPre, trendRuns>>

kpiVars == <<kpi_summary, kpiTxn, kpiLast, kpiPrev>>

insVars == <<ai_insights, insTxn, insLast, insLatest>>

\* ------------------------------------------------------------ the session
\* A write is [kind |-> "insert", row |-> r] or
\* [kind |-> "update", id |-> i, set |-> r] where r's fields overwrite row i.
ApplyWrite(tbl, w) ==
    IF w.kind = "insert"
    THEN Append(tbl, w.row)
    ELSE [i \in 1..Len(tbl) |->
            IF i = w.id
            THEN [f \in DOMAIN tbl[i] |->
                    IF f \in DOMAIN w.set THEN w.set[f] ELSE tbl[i][f]]
            ELSE tbl[i]]

RECURSIVE ApplyWrites(_, _)
ApplyWrites(tbl, ws) ==
    IF ws = <<>> THEN tbl
    ELSE ApplyWrites(ApplyWrite(tbl, Head(ws)), Tail(ws))

\* db.commit(): the open transaction becomes part of the table
Commit(tbl, txn) == ApplyWrites(tbl, txn)

\* What a SELECT of the session sees: the table and its own open transaction
View(tbl, txn) == ApplyWrites(tbl, txn)

\* fetchone() on the ids matching a WHERE: one of them, or 0 (None) if none
FetchOne(ids) == IF ids = {} THEN {0} ELSE ids

\* Where a database call of a handler may fail
FailPoints == {"none", "lookup", "write", "commit"}

\* ------------------------------------------------------------- KPI engine
KpiValues == {10, 20}

\* The identity keys the calls are drawn from: a base key and one that
\* differs from it in each single column
KpiKeys ==
    {[client_id |-> 1, kpi_name |-> "total_records", period_start |-> 0, period_end |-> 2],
     [client_id |-> 2, kpi_name |-> "total_records", period_start |-> 0, period_end |-> 2],
     [client_id |-> 1, kpi_name |-> "total_amount", period_start |-> 0, period_end |-> 2],
     [client_id |-> 1, kpi_name |-> "total_records", period_start |-> 1, period_end |-> 2],
     [client_id |-> 1, kpi_name |-> "total_records", period_start |-> 0, period_end |-> 1]}

KpiSameKey(r, a) ==
    /\ r.client_id = a.client_id
    /\ r.kpi_name = a.kpi_name
    /\ r.period_start = a.period_start
    /\ r.period_end = a.period_end

\* check_query: SELECT id FROM kpi_summary WHERE client_id, kpi_name,
\* period_start and period_end equal the arguments
KpiMatches(tbl, a) == {i \in 1..Len(tbl) : KpiSameKey(tbl[i], a)}

\* persist_kpi with the existence check lost: it always inserts
KpiWriteInsertOnly(existing, a, t) ==
    [kind |-> "insert",
     row |-> [client_id |-> a.client_id, kpi_name |-> a.kpi_name,
              kpi_value |-> a.kpi_value, period_start |-> a.period_start,
              period_end |-> a.period_end, calculated_at |-> t]]

\* update_query / insert_query of persist_kpi, for the row `existing` found
KpiWrite(existing, a, t) ==
    IF existing # 0
    THEN [kind |-> "update", id |-> existing,
          set |-> [kpi_value |-> a.kpi_value, calculated_at |-> t]]
    ELSE [kind |-> "insert",
          row |-> [client_id |-> a.client_id, kpi_name |-> a.kpi_name,
                   kpi_value |-> a.kpi_value, period_start |-> a.period_start,
                   period_end |-> a.period_end, calculated_at |-> t]]

\* An except branch that returns False without rolling back
KpiOnErrorNoRollback(tbl, txn) ==
    [table |-> tbl, txn |-> txn, ret |-> FALSE, raised |-> FALSE]

\* The except branch of persist_kpi: self.db.rollback(); return False.
\* txn is the session's open transaction when the exception was raised.
KpiOnError(tbl, txn) ==
    [table |-> tbl, txn |-> <<>>, ret |-> FALSE, raised |-> FALSE]

\* persist_kpi returning True with its write left uncommitted
persist_kpi_ReturnsUncommitted(tbl, txn, a, existing, fail, t) ==
    IF fail # "none" THEN KpiOnError(tbl, txn)
    ELSE [table |-> tbl, txn |-> Append(txn, KpiWrite(existing, a, t)),
          ret |-> TRUE, raised |-> FALSE]

\* persist_kpi(a) at time t on table tbl in a session whose open transaction
\* is txn, with `existing` the row fetchone() gave and `fail` the database
\* call that raises
persist_kpi(tbl, txn, a, existing, fail, t) ==
    IF fail = "lookup" THEN KpiOnError(tbl, txn)
    ELSE IF fail = "write" THEN KpiOnError(tbl, txn)
    ELSE LET executed == Append(txn, KpiWrite(existing, a, t))
         IN IF fail = "commit" THEN KpiOnError(tbl, executed)
            ELSE [table |-> Commit(tbl, executed), txn |-> <<>>,
                  ret |-> TRUE, raised |-> FALSE]

NoCall == [op |-> "none"]

PersistKpi ==
    /\ calls < MaxCalls
    /\ \E k \in KpiKeys, v \in KpiValues, fail \in FailPoints :
         LET a == [client_id |-> k.client_id, kpi_name |-> k.kpi_name,
                   period_start |-> k.period_start, period_end |-> k.period_end,
                   kpi_value |-> v]
         IN \E existing \in FetchOne(KpiMatches(View(kpi_summary, kpiTxn), a)) :
              \E r \in {persist_kpi(kpi_summary, kpiTxn, a, existing, fail, now)} :
                 /\ kpi_summary' = r.table
                 /\ kpiTxn' = r.txn
                 /\ kpiLast' = [op |-> "persist_kpi", args |-> a, at |-> now,
                                fail |-> fail, ret |-> r.ret, raised |-> r.raised]
                 /\ kpiPrev' = kpiLast
                 /\ calls' = calls + 1
    /\ UNCHANGED <<now, trendVars, insVars, conc, taskVars, pipeVars,
                   analysisVars, moreVars>>

Tick ==
    /\ now < MaxTime
    /\ now' = now + 1
    /\ UNCHANGED <<kpiVars, calls, trendVars, insVars, conc, taskVars, pipeVars,
                   analysisVars, moreVars>>

\* ------------------------------------------------------ insight generator
InsightClients == {1, 2}

\* What generate_insights_for_client may hand to persist_insight: a regular
\* insight and the "insufficient data" one (which has no metrics key)
InsightData ==
    {[summary_text |-> "Cliente: 3 textos, 1 KPIs. Nivel de riesgo: MEDIUM.",
      key_findings |-> <<"sentiment", "kpi">>,
      risk_level |-> "medium", opportunity_level |-> "low",
      metrics |-> <<3, 1, 0, 7>>],
     [summary_text |-> "Datos insuficientes para generar insights",
      key_findings |-> <<>>,
      risk_level |-> "unknown", opportunity_level |-> "unknown",
      metrics |-> <<>>]}

\* DATE(generated_at): the calendar day a tick falls in
DateOf(t) == t \div TicksPerDay

\* check_query without the DATE() condition
InsightMatchesClientOnly(tbl, a) ==
    {i \in 1..Len(tbl) : tbl[i].client_id = a.client_id}

\* check_query of persist_insight: the rows of the client generated on the
\* same calendar day
InsightMatches(tbl, a) ==
    {i \in 1..Len(tbl) :
        /\ tbl[i].client_id = a.client_id
        /\ DateOf(tbl[i].generated_at) = DateOf(a.generated_at)}

\* update_query / insert_query of persist_insight, for the row found
InsightWrite(existing, a) ==
    IF existing # 0
    THEN [kind |-> "update", id |-> existing,
          set |-> [summary_text |-> a.summary_text,
                   key_findings |-> a.key_findings,
                   risk_level |-> a.risk_level,
                   opportunity_level |-> a.opportunity_level,
                   metrics |-> a.metrics]]
    ELSE [kind |-> "insert",
          row |-> [client_id |-> a.client_id, summary_text |-> a.summary_text,
                   key_findings |-> a.key_findings, risk_level |-> a.risk_level,
                   opportunity_level |-> a.opportunity_level,
                   metrics |-> a.metrics, generated_at |-> a.generated_at]]

\* The except branch of persist_insight: self.db.rollback(); return False
InsightOnError(tbl, txn) ==
    [table |-> tbl, txn |-> <<>>, ret |-> FALSE, raised |-> FALSE]

\* persist_insight(a) on table tbl in a session whose open transaction is
\* txn, with `existing` the row fetchone() gave and `fail` the database call
\* that raises
persist_insight(tbl, txn, a, existing, fail) ==
    IF fail = "lookup" THEN InsightOnError(tbl, txn)
    ELSE IF fail = "write" THEN InsightOnError(tbl, txn)
    ELSE LET executed == Append(txn, InsightWrite(existing, a))
         IN IF fail = "commit" THEN InsightOnError(tbl, executed)
            ELSE [table |-> Commit(tbl, executed), txn |-> <<>>,
                  ret |-> TRUE, raised |-> FALSE]

\* The insight generate_insights_for_client builds at time t
InsightAt(client, data, t) ==
    [client_id |-> client, summary_text |-> data.summary_text,
     key_findings |-> data.key_findings, risk_level |-> data.risk_level,
     opportunity_level |-> data.opportunity_level, metrics |-> data.metrics,
     generated_at |-> t]

\* insLatest after a call with insight a that returned ret
Latest(latest, a, ret) ==
    IF ret
    THEN {e \in latest : ~(e.client_id = a.client_id /\ e.day = DateOf(a.generated_at))}
         \cup {[client_id |-> a.client_id, day |-> DateOf(a.generated_at), data |-> a]}
    ELSE latest

\* One persist_insight call, on an insight generated now
PersistInsight ==
    /\ calls < MaxCalls
    /\ \E client \in InsightClients, data \in InsightData, fail \in FailPoints :
         LET a == InsightAt(client, data, now)
         IN \E existing \in FetchOne(InsightMatches(View(ai_insights, insTxn), a)) :
              \E r \in {persist_insight(ai_insights, insTxn, a, existing, fail)} :
                 /\ ai_insights' = r.table
                 /\ insTxn' = r.txn
                 /\ insLast' = [op |-> "persist_insight", args |-> a, at |-> now,
                                fail |-> fail, ret |-> r.ret, raised |-> r.raised]
                 /\ insLatest' = Latest(insLatest, a, r.ret)
                 /\ calls' = calls + 1
    /\ UNCHANGED <<now, kpiVars, trendVars, conc, taskVars, pipeVars,
                   analysisVars, moreVars>>

\* ---------------------------------------- persist_insight, statement-wise
\* The sessions that may run persist_insight at the same time: the batch
\* task generate_recent_insights and the task the recompute endpoint queues
Sessions == {"batch", "recompute"}

\* A session outside persist_insight
Idle == [pc |-> "idle", args |-> NoCall, existing |-> 0, txn |-> <<>>, ret |-> FALSE]

\* A task enters persist_insight with the insight it generated now
InsightBegin(s) ==
    /\ conc[s].pc = "idle"
    /\ calls < MaxCalls
    /\ \E client \in InsightClients, data \in InsightData :
         conc' = [conc EXCEPT ![s] = [Idle EXCEPT !.pc = "lookup",
                                         !.args = InsightAt(client, data, now)]]
    /\ calls' = calls + 1
    /\ UNCHANGED <<now, kpiVars, trendVars, insVars, taskVars, pipeVars,
                   analysisVars, moreVars>>

\* check_query and fetchone(): the session sees the committed rows and its
\* own uncommitted writes
InsightLookup(s) ==
    /\ conc[s].pc = "lookup"
    /\ \E existing \in FetchOne(InsightMatches(View(ai_insights, conc[s].txn), conc[s].args)) :
         conc' = [conc EXCEPT ![s].pc = "write", ![s].existing = existing]
    /\ UNCHANGED <<now, kpiVars, calls, trendVars, insVars, taskVars, pipeVars,
                   analysisVars, moreVars>>

\* update_query or insert_query, executed in the session's transaction
InsightExecute(s) ==
    /\ conc[s].pc = "write"
    /\ conc' = [conc EXCEPT ![s].pc = "commit",
                            ![s].txn = Append(@, InsightWrite(conc[s].existing, conc[s].args))]
    /\ UNCHANGED <<now, kpiVars, calls, trendVars, insVars, taskVars, pipeVars,
                   analysisVars, moreVars>>

\* self.db.commit(); return True
InsightCommit(s) ==
    /\ conc[s].pc = "commit"
    /\ ai_insights' = Commit(ai_insights, conc[s].txn)
    /\ conc' = [conc EXCEPT ![s] = [Idle EXCEPT !.ret = TRUE]]
    /\ UNCHANGED <<now, kpiVars, calls, trendVars, insTxn, insLast, insLatest, taskVars, pipeVars,
                   analysisVars, moreVars>>

\* The statement the session is at raises: rollback and return False
InsightFail(s) ==
    /\ conc[s].pc \in {"lookup", "write", "commit"}
    /\ conc' = [conc EXCEPT ![s] = Idle]
    /\ UNCHANGED <<now, kpiVars, calls, trendVars, insVars, taskVars, pipeVars,
                   analysisVars, moreVars>>

\* ----------------------------------------------------------- trend engine
Sectors == {"general"}
Terms == {"refund", "delay"}

\* timedelta(days=3), in ticks
RecentTicks == RecentDays * TicksPerDay

\* A computed delta_pct: the exact fraction num / den, and the side of it
\* the float lies on (err: -1 just below, 0 exact, 1 just above)
Exactly(n) == [num |-> n, den |-> 1, err |-> 0]

\* d >= c and d <= c for a computed value d and an integer c
FloatGe(d, c) == d.num > c * d.den \/ (d.num = c * d.den /\ d.err >= 0)
FloatLe(d, c) == d.num < c * d.den \/ (d.num = c * d.den /\ d.err <= 0)

\* The classification with `delta_pct > 50` for rising
TrendLabelAbove(delta_pct) ==
    IF ~FloatLe(delta_pct, 50) THEN "rising"
    ELSE IF FloatLe(delta_pct, -30) THEN "falling"
    ELSE "stable"

\* The classification of detect_trends_for_sector
TrendLabel(delta_pct) ==
    IF FloatGe(delta_pct, 50) THEN "rising"
    ELSE IF FloatLe(delta_pct, -30) THEN "falling"
    ELSE "stable"

\* What a detection run may measure for a term (20 records in the long
\* window, 5 in the short one): a rise, a fall or a stable frequency
Rise == [count_short |-> 2, count_long |-> 4, delta_pct |-> 100]
Fall == [count_short |-> 1, count_long |-> 10, delta_pct |-> -60]
Flat == [count_short |-> 1, count_long |-> 5, delta_pct |-> -20]

Measurements ==
    {m \in [Terms -> {Rise, Fall, Flat}] : m["delay"] # Fall}

\* A row of the frame detect_trends_for_sector returns, detected at time t
TrendRow(sector, term, st, t) ==
    [sector |-> sector, term |-> term,
     count_short |-> st.count_short, count_long |-> st.count_long,
     delta_pct |-> st.delta_pct,
     trend_label |-> TrendLabel(Exactly(st.delta_pct)),
     period_start |-> t - WindowLongDays * TicksPerDay, period_end |-> t]

\* The frames detect_trends_for_sector may return when it measures
\* measured[term] for each term: the rising and falling rows, one per term,
\* sorted by delta_pct descending (rows of equal delta_pct in either order)
TrendFrames(sector, measured, t) ==
    LET rows == {r \in {TrendRow(sector, term, measured[term], t) : term \in Terms} :
                    r.trend_label \in {"rising", "falling"}}
        n == Cardinality(rows)
    IN {df \in [1..n -> rows] :
          /\ \A i, j \in 1..n : i # j => df[i] # df[j]
          /\ \A i \in 1..n : \A j \in 1..n :
               i < j => df[i].delta_pct >= df[j].delta_pct}

\* check_query with the 3 days not subtracted from the current time
TrendMatchesNoHorizon(tbl, row, t) ==
    {i \in 1..Len(tbl) :
        /\ tbl[i].sector = row.sector
        /\ tbl[i].term = row.term
        /\ tbl[i].period_end >= t}

\* check_query of persist_trends: the rows of the same sector and term whose
\* period_end is not older than 3 days
TrendMatches(tbl, row, t) ==
    {i \in 1..Len(tbl) :
        /\ tbl[i].sector = row.sector
        /\ tbl[i].term = row.term
        /\ tbl[i].period_end >= t - RecentTicks}

\* fetchone() of that query (no reachable lookup matches two rows: see
\* TrendLookupUnambiguous)
TrendFetchOne(ids) == IF ids = {} THEN 0 ELSE CHOOSE i \in ids : TRUE

\* update_query / insert_query of persist_trends (the metadata column, a
\* copy of the row's counts, is left out)
TrendWrite(existing, row, t) ==
    IF existing # 0
    THEN [kind |-> "update", id |-> existing,
          set |-> [delta_pct |-> row.delta_pct, trend_status |-> row.trend_label,
                   frequency |-> row.count_short, detected_at |-> t]]
    ELSE [kind |-> "insert",
          row |-> [sector |-> row.sector, term |-> row.term,
                   frequency |-> row.count_short, delta_pct |-> row.delta_pct,
                   trend_status |-> row.trend_label,
                   period_start |-> row.period_start,
                   period_end |-> row.period_end, detected_at |-> t]]

\* The loop body with `persisted += 1` moved out of the try block
TrendIterationCountsFailures(tbl, acc, row, fail, t) ==
    IF fail
    THEN [acc EXCEPT !.attempted = @ + 1, !.persisted = @ + 1]
    ELSE LET existing == TrendFetchOne(TrendMatches(View(tbl, acc.txn), row, t))
         IN [txn |-> Append(acc.txn, TrendWrite(existing, row, t)),
             persisted |-> acc.persisted + 1,
             attempted |-> acc.attempted + 1]

\* One iteration of the loop of persist_trends. acc is the loop's state: the
\* session's open transaction, `persisted`, and the rows attempted so far.
\* fail says that a database call of the try block raises: the row is
\* logged and skipped (except ... continue).
TrendIteration(tbl, acc, row, fail, t) ==
    IF fail
    THEN [acc EXCEPT !.attempted = @ + 1]
    ELSE LET existing == TrendFetchOne(TrendMatches(View(tbl, acc.txn), row, t))
         IN [txn |-> Append(acc.txn, TrendWrite(existing, row, t)),
             persisted |-> acc.persisted + 1,
             attempted |-> acc.attempted + 1]

\* for _, row in df.iterrows(): ...
RECURSIVE TrendLoop(_, _, _, _, _)
TrendLoop(tbl, acc, df, fails, t) ==
    IF df = <<>> THEN acc
    ELSE TrendLoop(tbl, TrendIteration(tbl, acc, Head(df), Head(fails), t),
                   Tail(df), Tail(fails), t)

\* The end of persist_trends: self.db.commit(); return persisted. The commit
\* is outside every try block, so a failing commit raises to the caller with
\* the transaction still open.
TrendFinish(tbl, acc, commitFails) ==
    IF commitFails
    THEN [table |-> tbl, txn |-> acc.txn, ret |-> -1, raised |-> TRUE,
          attempted |-> acc.attempted]
    ELSE [table |-> Commit(tbl, acc.txn), txn |-> <<>>, ret |-> acc.persisted,
          raised |-> FALSE, attempted |-> acc.attempted]

\* persist_trends(df) at time t; fails[i] says that row i fails. ret is the
\* count returned, -1 when the call raised instead of returning.
persist_trends(tbl, txn, df, fails, commitFails, t) ==
    IF df = <<>>
    THEN [table |-> tbl, txn |-> txn, ret |-> 0, raised |-> FALSE, attempted |-> 0]
    ELSE TrendFinish(tbl,
                     TrendLoop(tbl, [txn |-> txn, persisted |-> 0, attempted |-> 0],
                               df, fails, t),
                     commitFails)

\* detect_trends_for_sector_task(sector): detection, then persist_trends if
\* the frame is not empty; an exception is answered by db.rollback() and
\* re-raised, and the session is closed. trendLast keeps what persist_trends
\* answered, with the session's transaction as persist_trends left it (for
\* an empty frame the task reports what persist_trends' early return does).
DetectTrendsTask(maxRuns) ==
    /\ trendRuns < maxRuns
    /\ \E sector \in Sectors, measured \in Measurements :
         \E df \in TrendFrames(sector, measured, now) :
           \E fails \in [1..Len(df) -> BOOLEAN],
              commitFails \in IF df = <<>> THEN {FALSE} ELSE BOOLEAN :
             \E r \in {persist_trends(trend_signals, <<>>, df, fails, commitFails, now)} :
                /\ trend_signals' = r.table
                /\ trendLast' = [op |-> "persist_trends", df |-> df, at |-> now,
                                 fails |-> fails, commitFails |-> commitFails,
                                 ret |-> r.ret, raised |-> r.raised,
                                 txn |-> r.txn, attempted |-> r.attempted]
                /\ trendPre' = trend_signals
                /\ trendRuns' = trendRuns + 1
    /\ UNCHANGED <<now, kpiVars, calls, insVars, conc, taskVars, pipeVars,
                   analysisVars, moreVars>>

\* A day passes between two runs
TrendDayPasses(maxDays) ==
    /\ now + TicksPerDay <= maxDays * TicksPerDay
    /\ now' = now + TicksPerDay
    /\ UNCHANGED <<kpiVars, calls, trendVars, insVars, conc, taskVars, pipeVars,
                   analysisVars, moreVars>>

\* ------------------------------------------------------------ batch tasks
\* What SELECT id FROM clients WHERE is_active ORDER BY id may return
ClientLists == {<<>>, <<1>>, <<2>>, <<1, 2>>}

\* ORDER BY client_id
RECURSIVE SortedSeq(_)
SortedSeq(S) ==
    IF S = {} THEN <<>>
    ELSE LET least == CHOOSE x \in S : \A y \in S : x <= y
         IN <<least>> \o SortedSeq(S \ {least})

ActivityTicks == (ActivityHours * TicksPerDay) \div 24

\* get_active_clients: the clients with a text_summary or kpi_summary row
\* no older than the activity horizon
get_active_clients(texts, kpis, t) ==
    SortedSeq({texts[i].client_id : i \in {j \in 1..Len(texts) :
                                             texts[j].created_at >= t - ActivityTicks}}
              \cup {kpis[i].client_id : i \in {j \in 1..Len(kpis) :
                                                 kpis[j].calculated_at >= t - ActivityTicks}})

\* A batch task that is not running
NoBatch ==
    [pc |-> "idle", client_ids |-> <<>>, idx |-> 1, results |-> <<>>,
     raised |-> {}, period_end |-> 0]

\* The entry generate_recent_insights appends after persist_insight returned
InsightBatchEntry(client, success, insight) ==
    IF success
    THEN [client_id |-> client, status |-> "success",
          findings_count |-> Len(insight.key_findings),
          risk_level |-> insight.risk_level,
          opportunity_level |-> insight.opportunity_level]
    ELSE [client_id |-> client, status |-> "failed_to_persist"]

\* An except branch that lets the exception end the batch
BatchOnExceptionAborts(b, client) ==
    [b EXCEPT !.pc = "failed"]

\* The except branch of the per-client try: record the error, go on with
\* the next client
BatchOnException(b, client) ==
    [b EXCEPT !.results = Append(@, [client_id |-> client, status |-> "error"]),
              !.idx = @ + 1]

\* The loop body ended without an exception and appended entry
BatchAppend(b, entry) ==
    [b EXCEPT !.results = Append(@, entry), !.idx = @ + 1]

\* generate_recent_insights up to the loop: list the active clients
StartInsightBatch ==
    /\ insBatch.pc # "loop"
    /\ batchRuns < MaxBatchRuns
    /\ batchRuns' = batchRuns + 1
    /\ \/ \* get_active_clients raises: rollback and raise
          insBatch' = [NoBatch EXCEPT !.pc = "failed"]
       \/ \E ids \in {get_active_clients(text_summary, kpi_summary, now)} :
            insBatch' = [NoBatch EXCEPT !.pc = IF ids = <<>> THEN "done" ELSE "loop",
                                        !.client_ids = ids]
    /\ insTxn' = <<>>
    /\ UNCHANGED <<now, kpiVars, calls, trendVars, ai_insights, insLast, insLatest,
                   conc, kpiBatch, pipeVars,
                   analysisVars, moreVars>>

\* One iteration of the loop of generate_recent_insights
InsightBatchStep ==
    /\ insBatch.pc = "loop"
    /\ insBatch.idx <= Len(insBatch.client_ids)
    /\ LET client == insBatch.client_ids[insBatch.idx]
       IN \/ \* generate_insights_for_client raises
             /\ insBatch' = BatchOnException(
                                [insBatch EXCEPT !.raised = @ \cup {insBatch.idx}], client)
             /\ UNCHANGED <<ai_insights, insTxn,
                   analysisVars, moreVars>>
          \/ \E data \in InsightData, fail \in FailPoints :
               LET a == InsightAt(client, data, now)
               IN \E existing \in FetchOne(InsightMatches(View(ai_insights, insTxn), a)) :
                    \E r \in {persist_insight(ai_insights, insTxn, a, existing, fail)} :
                       /\ ai_insights' = r.table
                       /\ insTxn' = r.txn
                       /\ insBatch' = BatchAppend(insBatch, InsightBatchEntry(client, r.ret, a))
    /\ UNCHANGED <<now, kpiVars, calls, trendVars, insLast, insLatest, conc,
                   kpiBatch, batchRuns, pipeVars,
                   analysisVars, moreVars>>

\* The loop is over: build the summary, return, close the session
InsightBatchFinish ==
    /\ insBatch.pc = "loop"
    /\ insBatch.idx > Len(insBatch.client_ids)
    /\ insBatch' = [insBatch EXCEPT !.pc = "done"]
    /\ insTxn' = <<>>
    /\ UNCHANGED <<now, kpiVars, calls, trendVars, ai_insights, insLast, insLatest,
                   conc, kpiBatch, batchRuns, pipeVars,
                   analysisVars, moreVars>>

\* What compute_kpis_for_client may return: no KPI, one KPI, two KPIs, or a
\* KPI and a text-valued entry (top1_item), in the order of the dict
KpiResults ==
    {<<>>,
     <<[name |-> "total_records", value |-> 10, numeric |-> TRUE]>>,
     <<[name |-> "total_records", value |-> 10, numeric |-> TRUE],
       [name |-> "total_amount", value |-> 10, numeric |-> TRUE]>>,
     <<[name |-> "total_records", value |-> 10, numeric |-> TRUE],
       [name |-> "top1_item", value |-> 0, numeric |-> FALSE]>>}

PeriodTicks == PeriodDays * TicksPerDay

\* fetchone() on the rows of a KPI identity key, which are never two
KpiFetchOne(ids) == IF ids = {} THEN 0 ELSE CHOOSE i \in ids : TRUE

\* The for loop of compute_and_persist_kpis from KPI number i on; acc is the
\* table, the open transaction and the number of KPIs persisted so far
RECURSIVE KpiPersistLoop(_, _, _, _, _, _, _)
KpiPersistLoop(acc, client, kpis, fails, i, period_end, t) ==
    IF i > Len(kpis) THEN acc
    ELSE IF ~kpis[i].numeric
         THEN KpiPersistLoop(acc, client, kpis, fails, i + 1, period_end, t)
         ELSE LET a == [client_id |-> client, kpi_name |-> kpis[i].name,
                        period_start |-> period_end - PeriodTicks,
                        period_end |-> period_end, kpi_value |-> kpis[i].value]
                  existing == KpiFetchOne(KpiMatches(View(acc.table, acc.txn), a))
                  r == persist_kpi(acc.table, acc.txn, a, existing, fails[i], t)
              IN KpiPersistLoop([table |-> r.table, txn |-> r.txn,
                                 persisted |-> acc.persisted + (IF r.ret THEN 1 ELSE 0)],
                                client, kpis, fails, i + 1, period_end, t)

\* compute_and_persist_kpis: the result dict and what it left in the table
\* and the session; computeRaises says compute_kpis_for_client raised
compute_and_persist_kpis(tbl, txn, client, computeRaises, kpis, fails, period_end, t) ==
    IF computeRaises
    THEN [table |-> tbl, txn |-> txn,
          result |-> [client_id |-> client, kpis_calculated |-> 0,
                      kpis_persisted |-> 0, status |-> "error"]]
    ELSE IF kpis = <<>>
    THEN [table |-> tbl, txn |-> txn,
          result |-> [client_id |-> client, kpis_calculated |-> 0,
                      kpis_persisted |-> 0, status |-> "no_data"]]
    ELSE LET done == KpiPersistLoop([table |-> tbl, txn |-> txn, persisted |-> 0],
                                    client, kpis, fails, 1, period_end, t)
         IN [table |-> done.table, txn |-> done.txn,
             result |-> [client_id |-> client, kpis_calculated |-> Len(kpis),
                         kpis_persisted |-> done.persisted, status |-> "success"]]

\* compute_kpis_for_recent up to the loop: list the clients, fix the period
StartKpiBatch ==
    /\ kpiBatch.pc # "loop"
    /\ batchRuns < MaxBatchRuns
    /\ batchRuns' = batchRuns + 1
    /\ \/ \* get_clients_with_recent_data raises: rollback and raise
          kpiBatch' = [NoBatch EXCEPT !.pc = "failed"]
       \/ \E ids \in ClientLists :
            kpiBatch' = [NoBatch EXCEPT !.pc = IF ids = <<>> THEN "done" ELSE "loop",
                                        !.client_ids = ids, !.period_end = now]
    /\ kpiTxn' = <<>>
    /\ UNCHANGED <<now, kpi_summary, kpiLast, kpiPrev, calls, trendVars, insVars,
                   conc, insBatch, pipeVars,
                   analysisVars, moreVars>>

\* One iteration of the loop of compute_kpis_for_recent
KpiBatchStep ==
    /\ kpiBatch.pc = "loop"
    /\ kpiBatch.idx <= Len(kpiBatch.client_ids)
    /\ LET client == kpiBatch.client_ids[kpiBatch.idx]
       IN \E computeRaises \in BOOLEAN :
            \E kpis \in IF computeRaises THEN {<<>>} ELSE KpiResults :
              \E fails \in [1..Len(kpis) -> FailPoints] :
                \E r \in {compute_and_persist_kpis(kpi_summary, kpiTxn, client, computeRaises,
                                                   kpis, fails, kpiBatch.period_end, now)} :
                   /\ kpi_summary' = r.table
                   /\ kpiTxn' = r.txn
                   /\ kpiBatch' = BatchAppend(
                          [kpiBatch EXCEPT !.raised =
                               IF computeRaises THEN @ \cup {kpiBatch.idx} ELSE @],
                          r.result)
    /\ UNCHANGED <<now, kpiLast, kpiPrev, calls, trendVars, insVars, conc,
                   insBatch, batchRuns, pipeVars,
                   analysisVars, moreVars>>

\* The loop is over: build the summary, return, close the session
KpiBatchFinish ==
    /\ kpiBatch.pc = "loop"
    /\ kpiBatch.idx > Len(kpiBatch.client_ids)
    /\ kpiBatch' = [kpiBatch EXCEPT !.pc = "done"]
    /\ kpiTxn' = <<>>
    /\ UNCHANGED <<now, kpi_summary, kpiLast, kpiPrev, calls, trendVars, insVars,
                   conc, insBatch, batchRuns, pipeVars,
                   analysisVars, moreVars>>

\* --------------------------------------------------------------- text task
\* A text is a sequence of characters; " " is white space
\* The data column of the processed_data rows at the start, oldest first: a
\* row with a text and a row whose only text is a white-space comment
ProcessedData ==
    <<[id |-> 1, text |-> <<"o", "k">>, comment |-> <<>>, description |-> <<>>],
      [id |-> 2, text |-> <<>>, comment |-> <<" ">>, description |-> <<>>]>>

\* The labels analyze_sentiment gives
SentimentLabels == {"positive", "negative", "neutral"}

\* data.get('text') or data.get('comment') or data.get('description')
ExtractText(data) ==
    IF data.text # <<>> THEN data.text
    ELSE IF data.comment # <<>> THEN data.comment
    ELSE data.description

\* not text_field or not text_field.strip()
IsBlank(txt) == \A i \in 1..Len(txt) : txt[i] = " "

\* text_field[:1000]
Truncate(txt) ==
    IF Len(txt) <= TextFieldLen THEN txt ELSE SubSeq(txt, 1, TextFieldLen)

\* ORDER BY created_at DESC
RECURSIVE Reverse(_)
Reverse(s) == IF s = <<>> THEN <<>> ELSE Append(Reverse(Tail(s)), Head(s))

\* LIMIT :limit
Limit(s, n) == IF Len(s) <= n THEN s ELSE SubSeq(s, 1, n)

\* The query of process_new_texts: the rows whose data->>'text' is not the
\* text_field of a text_summary row, newest first, at most `limit` of them
PendingRecords(texts, limit) ==
    LET NotSummarised(r) == \A i \in 1..Len(texts) : texts[i].text_field # r.text
    IN Limit(SelectSeq(Reverse(processed_data), NotSummarised), limit)

\* SELECT id FROM clients ORDER BY id LIMIT 1
DefaultClient == Head(SortedSeq(InsightClients))

\* process_new_texts before it has run
NoTextTask ==
    [pc |-> "idle", pending |-> <<>>, idx |-> 1, processed |-> 0, errors |-> 0,
     before |-> 0]

\* process_new_texts(limit) up to the loop: select the pending records
StartTextTaskWith(limit) ==
    /\ textTask.pc = "idle"
    /\ \/ \* the query raises: rollback and raise
          textTask' = [NoTextTask EXCEPT !.pc = "failed", !.before = Len(text_summary)]
       \/ \E pending \in {PendingRecords(text_summary, limit)} :
            textTask' = [NoTextTask EXCEPT
                            !.pc = IF pending = <<>> THEN "done" ELSE "loop",
                            !.pending = pending, !.before = Len(text_summary)]
    /\ UNCHANGED <<now, kpiVars, calls, trendVars, insVars, conc, taskVars,
                   text_summary, trendTask, pipeline,
                   analysisVars, moreVars>>

\* process_new_texts(10), as run_full_pipeline calls it
StartTextTask == StartTextTaskWith(TextLimit)

\* One iteration of the loop of process_new_texts: a record without text is
\* skipped; otherwise the text is analysed, its row inserted and committed,
\* and an exception on the way is answered by a rollback
TextStep ==
    /\ textTask.pc = "loop"
    /\ textTask.idx <= Len(textTask.pending)
    /\ LET text_field == ExtractText(textTask.pending[textTask.idx])
       IN IF IsBlank(text_field)
          THEN /\ textTask' = [textTask EXCEPT !.idx = @ + 1]
               /\ UNCHANGED text_summary
          ELSE \/ \E label \in SentimentLabels :
                    /\ text_summary' = Append(text_summary,
                           [client_id |-> DefaultClient,
                            text_field |-> Truncate(text_field),
                            sentiment |-> label, created_at |-> now])
                    /\ textTask' = [textTask EXCEPT !.idx = @ + 1, !.processed = @ + 1]
               \/ /\ textTask' = [textTask EXCEPT !.idx = @ + 1, !.errors = @ + 1]
                  /\ UNCHANGED text_summary
    /\ UNCHANGED <<now, kpiVars, calls, trendVars, insVars, conc, taskVars,
                   trendTask, pipeline,
                   analysisVars, moreVars>>

\* The loop is over: build the report, return, close the session
TextFinish ==
    /\ textTask.pc = "loop"
    /\ textTask.idx > Len(textTask.pending)
    /\ textTask' = [textTask EXCEPT !.pc = "done"]
    /\ UNCHANGED <<now, kpiVars, calls, trendVars, insVars, conc, taskVars,
                   text_summary, trendTask, pipeline,
                   analysisVars, moreVars>>

\* -------------------------------------------------------------- trend task
\* detect_recent_trends before it has run
NoTrendTask == [pc |-> "idle", detail |-> <<>>, df |-> <<>>, fails |-> <<>>]

\* The entry of sectors_detail for a sector whose frame is df and for which
\* persist_trends answered r
SectorDetail(sector, df, r) ==
    IF df = <<>>
    THEN [sector |-> sector, trends_detected |-> 0, trends_persisted |-> 0]
    ELSE IF r.raised
    THEN [sector |-> sector, status |-> "error"]
    ELSE [sector |-> sector, trends_detected |-> Len(df), trends_persisted |-> r.ret]

\* detect_recent_trends: no sector is defined, so "general" is analysed;
\* the frame detected is persisted, an exception of the sector is recorded,
\* and the session is closed
DetectRecentTrends ==
    /\ trendTask.pc = "idle"
    /\ \E sector \in Sectors :
         \/ \* detect_trends_for_sector raises
            /\ trendTask' = [NoTrendTask EXCEPT !.pc = "done",
                                !.detail = <<[sector |-> sector, status |-> "error"]>>]
            /\ UNCHANGED trend_signals
         \/ \E measured \in Measurements :
              \E df \in TrendFrames(sector, measured, now) :
                \E fails \in [1..Len(df) -> BOOLEAN],
                   commitFails \in IF df = <<>> THEN {FALSE} ELSE BOOLEAN :
                  \E r \in {persist_trends(trend_signals, <<>>, df, fails, commitFails, now)} :
                     /\ trend_signals' = r.table
                     /\ trendTask' = [NoTrendTask EXCEPT !.pc = "done",
                                         !.detail = <<SectorDetail(sector, df, r)>>,
                                         !.df = df, !.fails = fails]
    /\ UNCHANGED <<now, kpiVars, calls, trendLast, trendPre, trendRuns, insVars, conc,
                   taskVars, text_summary, textTask, pipeline,
                   analysisVars, moreVars>>

\* ---------------------------------------------------------- the pipeline run
\* A task has returned or raised
Finished(task) == task.pc \in {"done", "failed"}

\* The orchestrator starts a run: the three computations are dispatched
PipelineStart ==
    /\ pipeline = "off"
    /\ pipeline' = "compute"
    /\ UNCHANGED <<now, kpiVars, calls, trendVars, insVars, conc, taskVars,
                   text_summary, textTask, trendTask,
                   analysisVars, moreVars>>

\* The computations of the run, each task on a session of its own, their
\* steps in any order
PipelineCompute ==
    /\ pipeline = "compute"
    /\ \/ (kpiBatch.pc = "idle" /\ StartKpiBatch)
       \/ KpiBatchStep
       \/ KpiBatchFinish
       \/ StartTextTask
       \/ TextStep
       \/ TextFinish
       \/ DetectRecentTrends

\* The orchestrator dispatches the synthesis once the computations are over
PipelineSynthesize ==
    /\ pipeline = "compute"
    /\ Finished(kpiBatch)
    /\ Finished(textTask)
    /\ Finished(trendTask)
    /\ pipeline' = "synthesize"
    /\ UNCHANGED <<now, kpiVars, calls, trendVars, insVars, conc, taskVars,
                   text_summary, textTask, trendTask,
                   analysisVars, moreVars>>

\* The synthesis of the run
PipelineInsights ==
    /\ pipeline = "synthesize"
    /\ \/ (insBatch.pc = "idle" /\ StartInsightBatch)
       \/ InsightBatchStep
       \/ InsightBatchFinish

\* The run is over
PipelineEnd ==
    /\ pipeline = "synthesize"
    /\ Finished(insBatch)
    /\ pipeline' = "done"
    /\ UNCHANGED <<now, kpiVars, calls, trendVars, insVars, conc, taskVars,
                   text_summary, textTask, trendTask,
                   analysisVars, moreVars>>

\* ------------------------------------------- sentiment (data_insights)
\* A text is a sequence of tokens, each a word or the white space " "
Vocabulary == {"good", "Bad", "chair", " "}

\* str.lower() on a token
Lower(w) == IF w = "Bad" THEN "bad" ELSE w

\* The words of the two lexicons that the vocabulary can spell
POSITIVE_WORDS == {"good"}

NEGATIVE_WORDS == {"bad"}

\* The texts of at most MaxWords tokens
Texts == UNION {[1..n -> Vocabulary] : n \in 0..MaxWords}

\* re.findall(r'\w+', text.lower())
WordsOf(txt) ==
    LET IsWord(w) == w # " "
    IN SelectSeq([i \in DOMAIN txt |-> Lower(txt[i])], IsWord)

\* sum(1 for word in words if word in lexicon)
CountIn(words, lexicon) == Cardinality({i \in DOMAIN words : words[i] \in lexicon})

\* A polarity is the fraction num / den, den > 0
Frac(n, d) == [num |-> n, den |-> d]

\* p > a / b and p < a / b for b > 0
FracGt(p, a, b) == p.num * b > a * p.den

FracLt(p, a, b) == p.num * b < a * p.den

\* A label taken at the thresholds +0.5 and -0.5
LabelOfHalf(p) ==
    IF FracGt(p, 1, 2) THEN "positive"
    ELSE IF FracLt(p, -1, 2) THEN "negative"
    ELSE "neutral"

\* polarity > 0.2: positive; polarity < -0.2: negative; else neutral
LabelOf(p) ==
    IF FracGt(p, 1, 5) THEN "positive"
    ELSE IF FracLt(p, -1, 5) THEN "negative"
    ELSE "neutral"

\* _rule_based_sentiment(text)
rule_based_sentiment(txt) ==
    LET words == WordsOf(txt)
        positive_count == CountIn(words, POSITIVE_WORDS)
        negative_count == CountIn(words, NEGATIVE_WORDS)
        total == positive_count + negative_count
    IN IF total = 0
       THEN [polarity |-> Frac(0, 1), label |-> "neutral"]
       ELSE LET polarity == Frac(positive_count - negative_count, total)
            IN [polarity |-> polarity, label |-> LabelOf(polarity)]

\* What running the external model may come to: the launch raises
\* FileNotFoundError ("missing") or another error ("other_error"), the run
\* exceeds its timeout, or the process exits with a return code and an
\* output that contains the words in `says`
OllamaOutcomes ==
    {[kind |-> k, returncode |-> 0, says |-> {}] : k \in {"missing", "other_error", "timeout"}}
    \cup {[kind |-> "exit", returncode |-> c, says |-> w] :
             c \in {0, 1}, w \in SUBSET {"positive", "negative"}}

\* The result of a function that returned nothing
None == [polarity |-> Frac(0, 1), label |-> "None"]

\* _try_ollama_sentiment: a result, None, or the exception that escapes it
try_ollama_sentiment(outcome) ==
    IF outcome.kind \in {"timeout", "missing"}
    THEN [raised |-> FALSE, result |-> None]
    ELSE IF outcome.kind = "other_error"
    THEN [raised |-> TRUE, result |-> None]
    ELSE IF outcome.returncode # 0
    THEN [raised |-> FALSE, result |-> None]
    ELSE IF "positive" \in outcome.says
    THEN [raised |-> FALSE, result |-> [polarity |-> Frac(7, 10), label |-> "positive"]]
    ELSE IF "negative" \in outcome.says
    THEN [raised |-> FALSE, result |-> [polarity |-> Frac(-7, 10), label |-> "negative"]]
    ELSE [raised |-> FALSE, result |-> [polarity |-> Frac(0, 1), label |-> "neutral"]]

\* max(-1.0, min(1.0, polarity))
ClampPolarity(p) ==
    IF p.num > p.den THEN Frac(1, 1)
    ELSE IF p.num < -p.den THEN Frac(-1, 1)
    ELSE p

\* analyze_sentiment(text) when the external model comes to `outcome`
analyze_sentiment(txt, outcome) ==
    IF IsBlank(txt)
    THEN [raised |-> FALSE, result |-> [polarity |-> Frac(0, 1), label |-> "neutral"]]
    ELSE LET tried == try_ollama_sentiment(outcome)
         IN IF tried.raised THEN tried
            ELSE LET result == IF tried.result = None
                               THEN rule_based_sentiment(txt)
                               ELSE tried.result
                 IN [raised |-> FALSE,
                     result |-> [result EXCEPT !.polarity = ClampPolarity(@)]]

\* No call of analyze_sentiment under way
IdleSent ==
    [pc |-> "idle", text |-> <<>>, outcome |-> [kind |-> "none"], raised |-> FALSE,
     result |-> None]

\* No call of analyze_sentiment_with_ollama under way
IdleSvc ==
    [pc |-> "idle", text |-> <<>>, use_ollama |-> FALSE, outcome |-> [kind |-> "none"],
     raised |-> FALSE, result |-> [method |-> "none"]]

\* analyze_sentiment has ended with what it does for `outcome`
SentEnd(outcome) ==
    LET r == analyze_sentiment(sent.text, outcome)
    IN sent' = [sent EXCEPT !.pc = "returned", !.outcome = outcome,
                            !.raised = r.raised, !.result = r.result]

\* A caller calls analyze_sentiment(text): an empty text is answered at
\* once, any other starts the external model
SentCall ==
    /\ sent.pc = "idle"
    /\ svc.pc = "idle"
    /\ \E txt \in Texts :
         sent' = IF IsBlank(txt)
                 THEN [IdleSent EXCEPT !.pc = "returned", !.text = txt,
                          !.result = analyze_sentiment(txt, [kind |-> "none"]).result]
                 ELSE [IdleSent EXCEPT !.pc = "launch", !.text = txt]
    /\ UNCHANGED <<now, kpiVars, calls, trendVars, insVars, conc, taskVars, pipeVars,
                   svc, gen, det, moreVars>>

\* subprocess.run starts the process, or raises because it cannot
SentLaunch ==
    /\ sent.pc = "launch"
    /\ \/ sent' = [sent EXCEPT !.pc = "running"]
       \/ \E outcome \in {o \in OllamaOutcomes : o.kind \in {"missing", "other_error"}} :
            SentEnd(outcome)
    /\ UNCHANGED <<now, kpiVars, calls, trendVars, insVars, conc, taskVars, pipeVars,
                   svc, gen, det, moreVars>>

\* The process exits
SentExit ==
    /\ sent.pc = "running"
    /\ \E outcome \in {o \in OllamaOutcomes : o.kind = "exit"} : SentEnd(outcome)
    /\ UNCHANGED <<now, kpiVars, calls, trendVars, insVars, conc, taskVars, pipeVars,
                   svc, gen, det, moreVars>>

\* timeout=15: subprocess.run gives up on the process
SentTimeout ==
    /\ sent.pc = "running"
    /\ \E outcome \in {o \in OllamaOutcomes : o.kind = "timeout"} : SentEnd(outcome)
    /\ UNCHANGED <<now, kpiVars, calls, trendVars, insVars, conc, taskVars, pipeVars,
                   svc, gen, det, moreVars>>

\* ------------------------------------------------- sentiment (services)
\* Tokens the lexicons of _analyze_sentiment_fallback tell apart: a positive
\* word, a negative word, a negation, an intensifier and any other word
SvcVocabulary == {"bueno", "malo", "no", "muy", "mesa"}

SvcTexts == UNION {[1..n -> SvcVocabulary] : n \in 0..MaxWords}

positive_words == {"bueno"}

negative_words == {"malo"}

intensifiers == {"muy"}

negations == {"no"}

\* The for loop of _analyze_sentiment_fallback from word i on. Counts and
\* the multiplier are in halves: a multiplier of 2 is 1.0 and of 3 is 1.5
RECURSIVE FallbackLoop(_, _, _)
FallbackLoop(words, i, acc) ==
    IF i > Len(words) THEN acc
    ELSE LET word == words[i]
         IN IF word \in intensifiers
            THEN FallbackLoop(words, i + 1, [acc EXCEPT !.multiplier = 3])
            ELSE IF word \in negations
            THEN FallbackLoop(words, i + 1, [acc EXCEPT !.negation = TRUE])
            ELSE IF word \in positive_words
            THEN FallbackLoop(words, i + 1,
                    IF acc.negation
                    THEN [acc EXCEPT !.negative = @ + acc.multiplier,
                                     !.negation = FALSE, !.multiplier = 2]
                    ELSE [acc EXCEPT !.positive = @ + acc.multiplier, !.multiplier = 2])
            ELSE IF word \in negative_words
            THEN FallbackLoop(words, i + 1,
                    IF acc.negation
                    THEN [acc EXCEPT !.positive = @ + acc.multiplier,
                                     !.negation = FALSE, !.multiplier = 2]
                    ELSE [acc EXCEPT !.negative = @ + acc.multiplier, !.multiplier = 2])
            ELSE FallbackLoop(words, i + 1, [acc EXCEPT !.multiplier = 2])

\* round(n / d, 3) in thousandths, ties to the even thousandth
Round3(n, d) ==
    LET q == (1000 * n) \div d
        twice == 2 * ((1000 * n) % d)
    IN IF twice > d THEN q + 1
       ELSE IF twice < d THEN q
       ELSE IF q % 2 = 0 THEN q ELSE q + 1

\* min(a, b)
Min(a, b) == IF a <= b THEN a ELSE b

Max(a, b) == IF a >= b THEN a ELSE b

\* _analyze_sentiment_fallback(text); scores and confidence in thousandths
analyze_sentiment_fallback(txt) ==
    LET words == [i \in DOMAIN txt |-> Lower(txt[i])]
        acc == FallbackLoop(words, 1, [positive |-> 0, negative |-> 0,
                                       multiplier |-> 2, negation |-> FALSE])
        total == acc.positive + acc.negative
    IN IF total = 0
       THEN [positive |-> 330, negative |-> 330, neutral |-> 340,
             method |-> "fallback", confidence |-> 500]
       ELSE [positive |-> Round3(acc.positive, total),
             negative |-> Round3(acc.negative, total),
             neutral |-> Round3(total - (acc.positive + acc.negative), total),
             method |-> "fallback", confidence |-> Min(total * 50, 1000)]

\* categories = ["positivo", "negativo", "neutral"]
Categories == <<"positivo", "negativo", "neutral">>

\* float(parts[1].strip()) in thousandths; -1 stands for ValueError
ParseScore(scoreText) ==
    IF scoreText = "0.85" THEN 850
    ELSE IF scoreText = "0.5" THEN 500
    ELSE IF scoreText = "1.5" THEN 1500
    ELSE -1

\* What the service may come to: it is not available, the chat call raises,
\* or the model answers "category|score" (pipe) or a sentence that mentions
\* some categories; slow says the answer took longer than the timeout
ServiceOutcomes ==
    {[kind |-> k, pipe |-> FALSE, category |-> "", score |-> "", mentions |-> {},
      slow |-> FALSE] : k \in {"unavailable", "chat_error"}}
    \cup {[kind |-> "response", pipe |-> TRUE, category |-> c, score |-> sc,
           mentions |-> {}, slow |-> sl] :
             c \in {"positivo", "negativo", "neutral", "otro"},
             sc \in {"0.85", "1.5", "abc"}, sl \in BOOLEAN}
    \cup {[kind |-> "response", pipe |-> FALSE, category |-> "", score |-> "",
           mentions |-> m, slow |-> sl] :
             m \in {{}, {"negativo"}, {"neutral", "negativo"}}, sl \in BOOLEAN}

\* The dict classify_text returns from its except branch
ClassifyOnError ==
    [category |-> Categories[1], confidence |-> 0, error |-> TRUE]

\* OllamaService.classify_text(text, categories); confidence in thousandths
classify_text(outcome) ==
    IF outcome.kind # "response" THEN ClassifyOnError
    ELSE LET parsed ==
                 IF outcome.pipe
                 THEN [category |-> outcome.category,
                       score |-> IF ParseScore(outcome.score) = -1 THEN 500
                                 ELSE Max(0, Min(1000, ParseScore(outcome.score)))]
                 ELSE LET found == {i \in DOMAIN Categories :
                                        Categories[i] \in outcome.mentions}
                      IN [category |-> IF found = {} THEN Categories[1]
                                       ELSE Categories[CHOOSE i \in found :
                                                          \A j \in found : i <= j],
                          score |-> 500]
             valid == {Categories[i] : i \in DOMAIN Categories}
         IN [category |-> IF parsed.category \in valid THEN parsed.category
                          ELSE Categories[1],
             confidence |-> parsed.score, error |-> FALSE]

\* The scores a category and a confidence are mapped to
OllamaScores(category, confidence) ==
    IF category = "positivo"
    THEN [positive |-> confidence, negative |-> ((1000 - confidence) * 3) \div 10,
          neutral |-> ((1000 - confidence) * 7) \div 10,
          method |-> "ollama", confidence |-> confidence]
    ELSE IF category = "negativo"
    THEN [positive |-> ((1000 - confidence) * 3) \div 10, negative |-> confidence,
          neutral |-> ((1000 - confidence) * 7) \div 10,
          method |-> "ollama", confidence |-> confidence]
    ELSE [positive |-> 300, negative |-> 300, neutral |-> confidence,
          method |-> "ollama", confidence |-> confidence]

\* analyze_sentiment_with_ollama(text, use_ollama) when the service comes to
\* `outcome`
analyze_sentiment_with_ollama(txt, use_ollama, outcome) ==
    IF use_ollama
    THEN LET result == classify_text(outcome)
         IN IF outcome.slow
            THEN analyze_sentiment_fallback(txt)
            ELSE OllamaScores(result.category, result.confidence)
    ELSE analyze_sentiment_fallback(txt)

\* analyze_sentiment_with_ollama has ended with what it does for `outcome`
SvcEnd(outcome) ==
    svc' = [svc EXCEPT !.pc = "returned", !.outcome = outcome,
               !.result = analyze_sentiment_with_ollama(svc.text, svc.use_ollama, outcome)]

\* A caller calls analyze_sentiment_with_ollama(text, use_ollama): without
\* Ollama the fallback answers at once
SvcCall ==
    /\ svc.pc = "idle"
    /\ sent.pc = "idle"
    /\ \E txt \in SvcTexts, use_ollama \in BOOLEAN :
         svc' = IF use_ollama
                THEN [IdleSvc EXCEPT !.pc = "checking", !.text = txt, !.use_ollama = TRUE]
                ELSE [IdleSvc EXCEPT !.pc = "returned", !.text = txt,
                         !.result = analyze_sentiment_with_ollama(
                                        txt, FALSE, [kind |-> "none", slow |-> FALSE])]
    /\ UNCHANGED <<now, kpiVars, calls, trendVars, insVars, conc, taskVars, pipeVars,
                   sent, gen, det, moreVars>>

\* generate() asks is_available(): the chat call is sent, or ConnectionError
\* is raised
SvcCheck ==
    /\ svc.pc = "checking"
    /\ \/ svc' = [svc EXCEPT !.pc = "waiting"]
       \/ \E outcome \in {o \in ServiceOutcomes : o.kind = "unavailable"} : SvcEnd(outcome)
    /\ UNCHANGED <<now, kpiVars, calls, trendVars, insVars, conc, taskVars, pipeVars,
                   sent, gen, det, moreVars>>

\* client.chat returns the model's answer or raises
SvcAnswer ==
    /\ svc.pc = "waiting"
    /\ \E outcome \in {o \in ServiceOutcomes : o.kind \in {"response", "chat_error"}} :
         SvcEnd(outcome)
    /\ UNCHANGED <<now, kpiVars, calls, trendVars, insVars, conc, taskVars, pipeVars,
                   sent, gen, det, moreVars>>

\* The caller takes the result, or the exception, of the call it made
TakeResult ==
    /\ sent.pc = "returned" \/ svc.pc = "returned"
    /\ sent' = IdleSent
    /\ svc' = IdleSvc
    /\ UNCHANGED <<now, kpiVars, calls, trendVars, insVars, conc, taskVars, pipeVars,
                   gen, det, moreVars>>

\* ------------------------------------------------- detect_trends_for_sector
\* window_short, in days
WindowShortDays == 7

\* How many days before date_end a text_summary row was created: inside the
\* short window, or only inside the long one
AgeDays == {1, 10}

\* The keywords column of a row: a list of terms, a term possibly twice
KeywordLists ==
    {<<>>, <<"refund">>, <<"delay">>, <<"refund", "delay">>, <<"refund", "refund">>}

\* The rows the query of detect_trends_for_sector returns (created within
\* the long window)
TextRows == [keywords : KeywordLists, age : {a \in AgeDays : a <= WindowLongDays}]
TextRowLists == UNION {[1..n -> TextRows] : n \in 0..MaxRecords}

\* df[df['created_at'] >= date_short_start]
ShortWindow(rows) == SelectSeq(rows, LAMBDA r : r.age <= WindowShortDays)

\* Counter(keywords)[term]: the occurrences of term in the keyword lists
CountTerm(rows, term) ==
    Cardinality(UNION {{<<i, j>> : j \in {k \in 1..Len(rows[i].keywords) :
                                              rows[i].keywords[k] = term}} :
                       i \in 1..Len(rows)})

\* A value of binary floating point is a fraction whose denominator is a
\* power of two
Pow2 == {1, 2, 4, 8, 16, 32, 64}
Dyadic(n, d) == \E p \in Pow2 : (n * p) % d = 0

\* The rounding error the float arithmetic of delta_pct may leave: none when
\* both normalised frequencies and their quotient are floats, else the
\* computed value lies just below (-1) or just above (1) the exact one or
\* is the exact one (0)
FloatErrors(cs, ns, cl, nl) ==
    IF cl = 0 THEN {0}
    ELSE IF /\ Dyadic(cl, Max(nl, 1))
            /\ Dyadic(cs, Max(ns, 1))
            /\ Dyadic(cs * Max(nl, 1) - Max(ns, 1) * cl, Max(ns, 1) * cl)
         THEN {0}
         ELSE {-1, 0, 1}

\* delta_pct as detect_trends_for_sector computes it from the counts of a
\* term (cs, cl) and the sizes of the two windows (ns, nl): the exact
\* fraction num / den, and the sign of the float's rounding error
DeltaPct(cs, ns, cl, nl, err) ==
    IF cl > 0
    THEN [num |-> 100 * (cs * Max(nl, 1) - Max(ns, 1) * cl),
          den |-> Max(ns, 1) * cl, err |-> err]
    ELSE [num |-> IF cs > 0 THEN 100 ELSE 0, den |-> 1, err |-> 0]

\* round(delta_pct, 2), in hundredths of a percent: to the nearest, a tie to
\* the side the float lies on, an exact tie to the even one
Round2(d) ==
    LET q == (100 * d.num) \div d.den
        r == (100 * d.num) % d.den
    IN IF 2 * r < d.den THEN q
       ELSE IF 2 * r > d.den THEN q + 1
       ELSE IF d.err < 0 THEN q
       ELSE IF d.err > 0 THEN q + 1
       ELSE IF q % 2 = 0 THEN q ELSE q + 1

\* The dictionary appended to `trends` for a term (the rounded frequencies
\* and the period, copies of the inputs, are left out); delta_pct is in
\* hundredths of a percent
DetectedRow(sector, term, cs, cl, d) ==
    [sector |-> sector, term |-> term, count_short |-> cs, count_long |-> cl,
     delta_pct |-> Round2(d), trend_label |-> TrendLabel(d)]

\* The loop over the terms without `if count_long < 2: continue`
DetectedRowsAnyCount(sector, rows, err) ==
    LET short == ShortWindow(rows)
        inFrame(term) ==
            LET cl == CountTerm(rows, term)
                d == DeltaPct(CountTerm(short, term), Len(short), cl, Len(rows),
                              err[term])
            IN cl >= 1 /\ TrendLabel(d) \in {"rising", "falling"}
    IN {DetectedRow(sector, term, CountTerm(short, term), CountTerm(rows, term),
                    DeltaPct(CountTerm(short, term), Len(short),
                             CountTerm(rows, term), Len(rows), err[term])) :
          term \in {x \in Terms : inFrame(x)}}

\* The loop over the terms: the rows kept for the frame
DetectedRows(sector, rows, err) ==
    LET short == ShortWindow(rows)
        inFrame(term) ==
            LET cl == CountTerm(rows, term)
                d == DeltaPct(CountTerm(short, term), Len(short), cl, Len(rows),
                              err[term])
            IN cl >= 2 /\ TrendLabel(d) \in {"rising", "falling"}
    IN {DetectedRow(sector, term, CountTerm(short, term), CountTerm(rows, term),
                    DeltaPct(CountTerm(short, term), Len(short),
                             CountTerm(rows, term), Len(rows), err[term])) :
          term \in {x \in Terms : inFrame(x)}}

\* df_trends.sort_values('delta_pct', ascending=False): the orders of the
\* rows with delta_pct descending (rows of equal delta_pct in either order)
SortedByDelta(found) ==
    LET n == Cardinality(found)
    IN {df \in [1..n -> found] :
          /\ \A i, j \in 1..n : i # j => df[i] # df[j]
          /\ \A i, j \in 1..n : i < j => df[i].delta_pct >= df[j].delta_pct}

\* detect_trends_for_sector(sector) over the rows the query returns: the
\* frames it may return. No row, or no keyword in any row, gives the empty
\* frame at once.
detect_trends_for_sector(sector, rows, err) ==
    IF rows = <<>> THEN {<<>>}
    ELSE IF \A i \in 1..Len(rows) : rows[i].keywords = <<>> THEN {<<>>}
    ELSE SortedByDelta(DetectedRows(sector, rows, err))

\* The rounding errors a detection over these rows may meet, one per term
DetectErrors(rows) ==
    {err \in [Terms -> {-1, 0, 1}] :
        \A term \in Terms :
            err[term] \in FloatErrors(CountTerm(ShortWindow(rows), term),
                                      Len(ShortWindow(rows)),
                                      CountTerm(rows, term), Len(rows))}

\* A caller runs detect_trends_for_sector and keeps the frame
DetectCall ==
    /\ det = NoCall
    /\ \E sector \in Sectors, rows \in TextRowLists :
         \E err \in DetectErrors(rows) :
           \E df \in detect_trends_for_sector(sector, rows, err) :
              det' = [op |-> "detect_trends_for_sector", sector |-> sector,
                      rows |-> rows, err |-> err, df |-> df]
    /\ UNCHANGED <<now, kpiVars, calls, insVars, conc, trendVars, taskVars,
                   pipeVars, sent, svc, gen, moreVars>>

\* The caller is done with the frame
DetectDone ==
    /\ det # NoCall
    /\ det' = NoCall
    /\ UNCHANGED <<now, kpiVars, calls, insVars, conc, trendVars, taskVars,
                   pipeVars, sent, svc, gen, moreVars>>

\* ------------------------------------------- generate_insights_for_client
\* days_back
DaysBack == 7

\* LIMIT 20 of the trend query
TrendLimit == 20

\* What _get_text_analysis returns: a record per row with its sentiment.
\* Only the numbers of positive, negative and neutral rows count.
TextDataOf(p, n, u) ==
    [i \in 1..(p + n + u) |->
        [sentiment |-> IF i <= p THEN "positive"
                       ELSE IF i <= p + n THEN "negative" ELSE "neutral"]]

TextPulls ==
    {TextDataOf(c[1], c[2], c[3]) :
        c \in {x \in (0..MaxTexts) \X (0..MaxTexts) \X (0..MaxTexts) :
                  x[1] + x[2] + x[3] <= MaxTexts}}

\* What _get_kpi_summary returns, latest first: the values of "ventas", the
\* latest one and the level it held before; up to two values of "ventas" may
\* come behind a newer value of another KPI
KpiLevels == {10, 50, 100}

VentasData(current, before, n) ==
    [i \in 1..n |-> [kpi_name |-> "ventas",
                     kpi_value |-> IF i = 1 THEN current ELSE before]]

KpiPulls ==
    {VentasData(current, before, n) :
        current \in KpiLevels, before \in KpiLevels, n \in 0..MaxKpis}
    \cup {<<[kpi_name |-> "costo", kpi_value |-> 100]>> \o VentasData(current, before, n) :
             current \in KpiLevels, before \in KpiLevels, n \in 0..2}

\* The two table definitions the queries of the repository fit: a
\* trend_signals with the columns the Trend Engine writes only, or one that
\* has the columns `status` and `created_at` of the generator's query as
\* well, which the Trend Engine never writes (status stays NULL, created_at
\* is the time of the insert, which is detected_at for a row not updated yet)
TrendSchemas == {"engine_columns", "all_columns"}

\* The dictionaries _get_trends builds, in one of the orders ORDER BY
\* frequency DESC allows, cut at LIMIT 20; a query that names a missing
\* column raises, and _get_trends answers [] then
get_trends(tbl, schema, t) ==
    IF schema = "engine_columns" THEN {<<>>}
    ELSE LET ids == {i \in 1..Len(tbl) :
                        tbl[i].detected_at >= t - DaysBack * TicksPerDay}
             n == Cardinality(ids)
         IN {Limit([k \in 1..n |->
                       [sector |-> tbl[order[k]].sector,
                        term |-> tbl[order[k]].term,
                        frequency |-> tbl[order[k]].frequency,
                        delta_pct |-> tbl[order[k]].delta_pct,
                        status |-> "NULL"]], TrendLimit) :
               order \in {o \in [1..n -> ids] :
                            /\ \A i, j \in 1..n : i # j => o[i] # o[j]
                            /\ \A i, j \in 1..n :
                                 i < j => tbl[o[i]].frequency >= tbl[o[j]].frequency}}

\* What an _analyze_* method returns: a finding (what it is about, and the
\* term or KPI and the number it names), and its severity as a risk or its
\* strength as an opportunity
Finding(tag, subject, count) == [tag |-> tag, subject |-> subject, count |-> count]

NoInsight ==
    [finding |-> Finding("none", "", 0), is_risk |-> FALSE, severity |-> 0,
     is_opportunity |-> FALSE, strength |-> 0]

Neutral(finding) == [NoInsight EXCEPT !.finding = finding]
Risk(finding, severity) ==
    [NoInsight EXCEPT !.finding = finding, !.is_risk = TRUE, !.severity = severity]
Opportunity(finding, strength) ==
    [NoInsight EXCEPT !.finding = finding, !.is_opportunity = TRUE,
                      !.strength = strength]

\* _analyze_sentiment_pattern: positive_pct and negative_pct are
\* count / total * 100 (every row of text_data has a sentiment)
analyze_sentiment_pattern(text_data) ==
    LET total == Len(text_data)
        positive == Cardinality({i \in 1..total : text_data[i].sentiment = "positive"})
        negative == Cardinality({i \in 1..total : text_data[i].sentiment = "negative"})
    IN IF total = 0 THEN NoInsight
       ELSE IF 100 * negative > 50 * total
            THEN Risk(Finding("negative_sentiment", "", negative),
                      IF 100 * negative > 70 * total THEN 3 ELSE 2)
       ELSE IF 100 * positive > 60 * total
            THEN Opportunity(Finding("positive_sentiment", "", positive),
                             IF 100 * positive > 80 * total THEN 3 ELSE 2)
       ELSE Neutral(Finding("mixed_sentiment", "", total))

\* kpi_groups[name]: the values of a KPI, latest first
KpiGroup(kpi_data, name) ==
    SelectSeq(kpi_data, LAMBDA k : k.kpi_name = name)

\* max(kpi_groups.items(), key=lambda x: len(x[1])): the KPI with the most
\* values, the one met first in kpi_data among equals
MainKpi(kpi_data) ==
    LET first(name) == CHOOSE i \in 1..Len(kpi_data) :
                          /\ kpi_data[i].kpi_name = name
                          /\ \A j \in 1..(i - 1) : kpi_data[j].kpi_name # name
        names == {kpi_data[i].kpi_name : i \in 1..Len(kpi_data)}
    IN CHOOSE name \in names :
          \A other \in names :
             \/ Len(KpiGroup(kpi_data, name)) > Len(KpiGroup(kpi_data, other))
             \/ /\ Len(KpiGroup(kpi_data, name)) = Len(KpiGroup(kpi_data, other))
                /\ first(name) <= first(other)

RECURSIVE SumValues(_)
SumValues(values) ==
    IF values = <<>> THEN 0 ELSE Head(values).kpi_value + SumValues(Tail(values))

\* The KPI finding with the oldest value taken as the current one
analyze_kpi_trend_OldestAsCurrent(kpi_data) ==
    IF kpi_data = <<>> THEN NoInsight
    ELSE LET name == MainKpi(kpi_data)
             values == KpiGroup(kpi_data, name)
             current == values[Len(values)].kpi_value
             n == Len(values)
             sum == SumValues(values)
         IN IF n >= 2 /\ sum # 0 /\ 100 * (current * n - sum) > 20 * sum
            THEN Opportunity(Finding("kpi_up", name, current),
                             IF 100 * (current * n - sum) > 50 * sum THEN 3 ELSE 2)
            ELSE IF n >= 2 /\ sum # 0 /\ 100 * (current * n - sum) < -20 * sum
            THEN Risk(Finding("kpi_down", name, current),
                      IF 100 * (current * n - sum) < -50 * sum THEN 3 ELSE 2)
            ELSE Neutral(Finding("kpi_main", name, current))

\* _analyze_kpi_trend: change_pct = (current - avg) / avg * 100 is
\* 100 * (current * n - sum) / sum, and 0 when the average is 0 (the values
\* are positive here, so sum > 0 keeps the direction of each comparison)
analyze_kpi_trend(kpi_data) ==
    IF kpi_data = <<>> THEN NoInsight
    ELSE LET name == MainKpi(kpi_data)
             values == KpiGroup(kpi_data, name)
             current == values[1].kpi_value
             n == Len(values)
             sum == SumValues(values)
         IN IF n >= 2 /\ sum # 0 /\ 100 * (current * n - sum) > 20 * sum
            THEN Opportunity(Finding("kpi_up", name, current),
                             IF 100 * (current * n - sum) > 50 * sum THEN 3 ELSE 2)
            ELSE IF n >= 2 /\ sum # 0 /\ 100 * (current * n - sum) < -20 * sum
            THEN Risk(Finding("kpi_down", name, current),
                      IF 100 * (current * n - sum) < -50 * sum THEN 3 ELSE 2)
            ELSE Neutral(Finding("kpi_main", name, current))

\* _analyze_emerging_trends
analyze_emerging_trends(trend_data) ==
    IF trend_data = <<>> THEN NoInsight
    ELSE LET emergent == SelectSeq(trend_data, LAMBDA t : t.status = "emergent")
         IN IF emergent # <<>>
            THEN Opportunity(Finding("emergent_trend", emergent[1].term,
                                     emergent[1].frequency),
                             IF emergent[1].frequency > 5 THEN 3 ELSE 2)
            ELSE Neutral(Finding("top_term", trend_data[1].term,
                                 trend_data[1].frequency))

RECURSIVE SumSeq(_)
SumSeq(s) == IF s = <<>> THEN 0 ELSE Head(s) + SumSeq(Tail(s))

\* _calculate_risk_level: avg_severity against 3, 2.5 and 1.5
calculate_risk_level(indicators) ==
    IF indicators = <<>> THEN "low"
    ELSE IF SumSeq(indicators) >= 3 * Len(indicators) THEN "critical"
    ELSE IF 2 * SumSeq(indicators) >= 5 * Len(indicators) THEN "high"
    ELSE IF 2 * SumSeq(indicators) >= 3 * Len(indicators) THEN "medium"
    ELSE "low"

\* _calculate_opportunity_level: avg_strength against 3 and 2
calculate_opportunity_level(indicators) ==
    IF indicators = <<>> THEN "low"
    ELSE IF SumSeq(indicators) >= 3 * Len(indicators) THEN "high"
    ELSE IF SumSeq(indicators) >= 2 * Len(indicators) THEN "medium"
    ELSE "low"

\* key_findings.append(...) / risk_indicators.append(...) /
\* opportunity_indicators.append(...) for the insights that are not None
Findings(insights) ==
    LET found == SelectSeq(insights, LAMBDA x : x # NoInsight)
    IN [k \in 1..Len(found) |-> found[k].finding]

Severities(insights) ==
    LET risks == SelectSeq(insights, LAMBDA x : x.is_risk)
    IN [k \in 1..Len(risks) |-> risks[k].severity]

Strengths(insights) ==
    LET chances == SelectSeq(insights, LAMBDA x : x.is_opportunity)
    IN [k \in 1..Len(chances) |-> chances[k].strength]

\* generate_insights_for_client with the insufficient-data answer given
\* whenever there is no text
generate_insights_for_client_NeedsText(client_id, text_data, kpi_data, trend_data) ==
    [client_id |-> client_id,
     summary_text |-> IF text_data = <<>> THEN "insufficient data" ELSE "generated",
     key_findings |->
         IF text_data = <<>> THEN <<>>
         ELSE Findings(<<analyze_sentiment_pattern(text_data),
                         analyze_kpi_trend(kpi_data),
                         analyze_emerging_trends(trend_data)>>),
     risk_level |->
         IF text_data = <<>> THEN "unknown"
         ELSE calculate_risk_level(
                  Severities(<<analyze_sentiment_pattern(text_data),
                               analyze_kpi_trend(kpi_data)>>)),
     opportunity_level |->
         IF text_data = <<>> THEN "unknown"
         ELSE calculate_opportunity_level(
                  Strengths(<<analyze_sentiment_pattern(text_data),
                              analyze_kpi_trend(kpi_data),
                              analyze_emerging_trends(trend_data)>>)),
     metrics |-> [text_records |-> Len(text_data),
                  kpis_analyzed |-> Len(kpi_data),
                  trends_detected |-> Len(trend_data)]]

\* generate_insights_for_client from the three pulls on (summary_text, made
\* of the counts and the two levels in words, is kept as the case it
\* reports; generated_at is left out). The trend insight adds no risk
\* indicator.
generate_insights_for_client(client_id, text_data, kpi_data, trend_data) ==
    IF text_data = <<>> /\ kpi_data = <<>> /\ trend_data = <<>>
    THEN [client_id |-> client_id, summary_text |-> "insufficient data",
          key_findings |-> <<>>, risk_level |-> "unknown",
          opportunity_level |-> "unknown",
          metrics |-> [text_records |-> 0, kpis_analyzed |-> 0,
                       trends_detected |-> 0]]
    ELSE LET sentiment_insight == analyze_sentiment_pattern(text_data)
             kpi_insight == analyze_kpi_trend(kpi_data)
             trend_insight == analyze_emerging_trends(trend_data)
         IN [client_id |-> client_id, summary_text |-> "generated",
             key_findings |->
                 Findings(<<sentiment_insight, kpi_insight, trend_insight>>),
             risk_level |->
                 calculate_risk_level(
                     Severities(<<sentiment_insight, kpi_insight>>)),
             opportunity_level |->
                 calculate_opportunity_level(
                     Strengths(<<sentiment_insight, kpi_insight, trend_insight>>)),
             metrics |-> [text_records |-> Len(text_data),
                          kpis_analyzed |-> Len(kpi_data),
                          trends_detected |-> Len(trend_data)]]

\* One detection run that stores its frame, every statement succeeding
DetectTrendsOnce ==
    /\ trendRuns = 0
    /\ \E sector \in Sectors, measured \in Measurements :
         \E df \in TrendFrames(sector, measured, now) :
           \E r \in {persist_trends(trend_signals, <<>>, df,
                                    [i \in 1..Len(df) |-> FALSE], FALSE, now)} :
              /\ trend_signals' = r.table
              /\ trendLast' = [op |-> "persist_trends", df |-> df, at |-> now,
                               fails |-> [i \in 1..Len(df) |-> FALSE],
                               commitFails |-> FALSE,
                               ret |-> r.ret, raised |-> r.raised,
                               txn |-> r.txn, attempted |-> r.attempted]
              /\ trendPre' = trend_signals
              /\ trendRuns' = trendRuns + 1
    /\ UNCHANGED <<now, kpiVars, calls, insVars, conc, taskVars, pipeVars,
                   analysisVars, moreVars>>

\* A caller runs generate_insights_for_client: the three pulls, then the
\* analysis
GenerateCall ==
    /\ gen = NoCall
    /\ \E client_id \in {DefaultClient}, text_data \in TextPulls,
          kpi_data \in KpiPulls, schema \in TrendSchemas :
         \E trend_data \in get_trends(trend_signals, schema, now) :
            gen' = [op |-> "generate_insights_for_client",
                    text_data |-> text_data, kpi_data |-> kpi_data,
                    trend_data |-> trend_data,
                    insight |-> generate_insights_for_client(
                                    client_id, text_data, kpi_data, trend_data)]
    /\ UNCHANGED <<now, kpiVars, calls, insVars, conc, trendVars, taskVars,
                   pipeVars, sent, svc, det, moreVars>>

\* The caller is done with the insight
GenerateDone ==
    /\ gen # NoCall
    /\ gen' = NoCall
    /\ UNCHANGED <<now, kpiVars, calls, insVars, conc, trendVars, taskVars,
                   pipeVars, sent, svc, det, moreVars>>

\* ---------------------------------------------------------- extract_keywords
\* Texts are sequences of tokens: words a capital letter may start, a
\* two-letter word, and " " for a run of whitespace
KeywordTokens == {"Refund", "delay", "the", "ok", " "}
KeywordTexts == UNION {[1..n -> KeywordTokens] : n \in 0..MaxWords}

\* text.lower(), token by token
KeywordLower(w) == IF w = "Refund" THEN "refund" ELSE w

\* The tokens \b[a-zA-Z]{3,}\b matches: the runs of three letters or more
LetterRuns == {"refund", "delay", "the"}

\* re.findall(r'\b[a-zA-Z]{3,}\b', text.lower())
FindWords(txt) ==
    LET lowered == [i \in 1..Len(txt) |-> KeywordLower(txt[i])]
    IN SelectSeq(lowered, LAMBDA w : w \in LetterRuns)

\* The stopwords among the tokens
STOPWORDS == {"the"}

\* The number of times word occurs in words
Occurrences(words, word) == Cardinality({i \in 1..Len(words) : words[i] = word})

\* The keys of Counter(words), in the order the counter keeps them: each
\* word where it comes first
RECURSIVE CounterKeys(_)
CounterKeys(words) ==
    IF words = <<>> THEN <<>>
    ELSE LET before == CounterKeys(SubSeq(words, 1, Len(words) - 1))
             last == words[Len(words)]
         IN IF \E i \in 1..Len(before) : before[i] = last
            THEN before ELSE Append(before, last)

\* counter.most_common(n) over the keys left: the key of the highest count,
\* the earliest one among equals, then the most common of the others
RECURSIVE MostCommon(_, _, _)
MostCommon(keys, words, n) ==
    IF n <= 0 \/ keys = <<>> THEN <<>>
    ELSE LET best == CHOOSE i \in 1..Len(keys) :
                        /\ \A j \in 1..Len(keys) :
                              Occurrences(words, keys[i]) >= Occurrences(words, keys[j])
                        /\ \A j \in 1..(i - 1) :
                              Occurrences(words, keys[j]) < Occurrences(words, keys[i])
             others == [k \in 1..(Len(keys) - 1) |->
                           IF k < best THEN keys[k] ELSE keys[k + 1]]
         IN <<keys[best]>> \o MostCommon(others, words, n - 1)

\* _fallback_keywords without the stopword filter
fallback_keywords_KeepsStopwords(txt, max_keywords) ==
    LET filtered == FindWords(txt)
    IN IF filtered = <<>> THEN <<>>
       ELSE MostCommon(CounterKeys(filtered), filtered, max_keywords)

\* _fallback_keywords
fallback_keywords(txt, max_keywords) ==
    LET filtered == SelectSeq(FindWords(txt), LAMBDA w : w \notin STOPWORDS)
    IN IF filtered = <<>> THEN <<>>
       ELSE MostCommon(CounterKeys(filtered), filtered, max_keywords)

\* What the spaCy branch may meet: the package missing (ImportError), the
\* model missing (OSError), or the nouns and entities the model finds
SpacyOutcomes ==
    {[kind |-> "import_error", candidates |-> <<>>],
     [kind |-> "no_model", candidates |-> <<>>]}
    \cup {[kind |-> "parsed", candidates |-> c] :
             c \in {<<>>, <<"refund">>, <<"the hague", "refund", "the hague">>}}

\* Whether extract_keywords answers with _fallback_keywords
RuleBased(outcome) == outcome.kind # "parsed" \/ outcome.candidates = <<>>

\* extract_keywords
extract_keywords(txt, max_keywords, outcome) ==
    IF IsBlank(txt) THEN <<>>
    ELSE IF RuleBased(outcome) THEN fallback_keywords(txt, max_keywords)
    ELSE MostCommon(CounterKeys(outcome.candidates), outcome.candidates,
                    max_keywords)

\* A caller asks for the keywords of a text
KeywordsCall ==
    /\ kw = NoCall
    /\ \E txt \in KeywordTexts, max_keywords \in 0..MaxWords,
          outcome \in SpacyOutcomes :
         kw' = [op |-> "extract_keywords", text |-> txt,
                max_keywords |-> max_keywords, outcome |-> outcome,
                keywords |-> extract_keywords(txt, max_keywords, outcome)]
    /\ UNCHANGED <<now, kpiVars, calls, insVars, conc, trendVars, taskVars,
                   pipeVars, analysisVars, calc, anom, connVars, dataVars>>

\* The caller is done with the list
KeywordsDone ==
    /\ kw # NoCall
    /\ kw' = NoCall
    /\ UNCHANGED <<now, kpiVars, calls, insVars, conc, trendVars, taskVars,
                   pipeVars, analysisVars, calc, anom, connVars, dataVars>>

\* --------------------------------------------------- compute_kpis_for_client
\* A cell of the frame: a number, a text that is no number, or NaN
Num(n) == [number |-> n]

NotANumber == [text |-> "n/a"]

NaN == [nan |-> TRUE]

\* created_at as a day of the year; the period read covers all of them
CreatedAts == {20, 31, 45, 60}

\* dt.to_period('M'): January has 31 days, February 28
MonthOf(day) == IF day <= 31 THEN 1 ELSE IF day <= 59 THEN 2 ELSE 3

\* The JSON documents a processed_data row may carry
JsonData ==
    { [item |-> "pan"],
      [amount |-> Num(0 - 100)],
      [amount |-> Num(0)],
      [amount |-> Num(100)],
      [amount |-> NotANumber, price |-> Num(100)],
      [price |-> Num(100)] }

\* record = {created_at, source_type}; record.update(json_data)
FrameRecord(day, json) == json @@ [created_at |-> day, source_type |-> "csv"]

\* The rows of the period, ORDER BY created_at
Frames ==
    { df \in UNION { [1..n -> { FrameRecord(d, j) : d \in CreatedAts, j \in JsonData }]
                     : n \in 0..MaxRecords } :
        \A i \in 1..Len(df) - 1 : df[i].created_at <= df[i + 1].created_at }

Columns(df) == UNION { DOMAIN df[i] : i \in 1..Len(df) }

sales_columns == <<"amount", "sales", "value", "total", "price">>

\* The first name of sales_columns that is a column of the frame, or "" for None
SalesCol(df) ==
    LET present == { k \in 1..Len(sales_columns) : sales_columns[k] \in Columns(df) }
    IN IF present = {} THEN ""
       ELSE sales_columns[CHOOSE k \in present : \A l \in present : k <= l]

\* pd.to_numeric(errors='coerce') of the cell of row i: a missing key and a
\* text that is no number both become NaN
ToNumeric(df, i, col) ==
    IF col \in DOMAIN df[i] /\ "number" \in DOMAIN df[i][col]
    THEN df[i][col] ELSE NaN

\* Series.sum() over the rows of idx: NaN cells are skipped
RECURSIVE SumCells(_, _, _)
SumCells(df, col, idx) ==
    IF idx = {} THEN 0
    ELSE LET i == CHOOSE k \in idx : TRUE
             cell == ToNumeric(df, i, col)
         IN (IF cell = NaN THEN 0 ELSE cell.number)
            + SumCells(df, col, idx \ {i})

FrameMonths(df) == { MonthOf(df[i].created_at) : i \in 1..Len(df) }

\* df.groupby('month')[sales_col].sum() at month m
MonthlySales(df, col, m) ==
    SumCells(df, col, { i \in 1..Len(df) : MonthOf(df[i].created_at) = m })

\* monthly_sales.iloc[-1] and monthly_sales.iloc[-2]: the groups come sorted
LastMonth(months) == CHOOSE m \in months : \A o \in months : o <= m

\* growth_rate as the fraction it is: (current - previous) / previous * 100
GrowthRate(current_month, previous_month) ==
    [num |-> (current_month - previous_month) * 100, den |-> previous_month]

\* KPI 4: the growth rate month over month, in a list that is empty when the
\* KPI is not set
sales_mom(df, sales_col) ==
    LET months == FrameMonths(df)
    IN IF sales_col = "" \/ Cardinality(months) < 2 THEN <<>>
       ELSE LET current_month == MonthlySales(df, sales_col, LastMonth(months))
                previous_month ==
                    MonthlySales(df, sales_col,
                                 LastMonth(months \ {LastMonth(months)}))
            IN IF previous_month > 0
               THEN <<GrowthRate(current_month, previous_month)>>
               ELSE <<>>

\* The KPIs returned, each as the list of its values (empty: key not set);
\* of the keys the function sets, total_records, total_sales and sales_mom
\* are kept
compute_kpis_for_client(df) ==
    IF df = <<>> THEN [total_records |-> <<>>, total_sales |-> <<>>,
                       sales_mom |-> <<>>]
    ELSE LET sales_col == SalesCol(df)
         IN [total_records |-> <<Len(df)>>,
             total_sales |-> IF sales_col = "" THEN <<>>
                             ELSE <<SumCells(df, sales_col, 1..Len(df))>>,
             sales_mom |-> sales_mom(df, sales_col)]

\* A caller computes the KPIs of a period
ComputeKpisCall ==
    /\ calc = NoCall
    /\ \E df \in Frames :
         calc' = [op |-> "compute_kpis_for_client", df |-> df,
                  kpis |-> compute_kpis_for_client(df)]
    /\ UNCHANGED <<now, kpiVars, calls, insVars, conc, trendVars, taskVars,
                   pipeVars, analysisVars, kw, anom, connVars, dataVars>>

\* The caller is done with the KPIs
ComputeKpisDone ==
    /\ calc # NoCall
    /\ calc' = NoCall
    /\ UNCHANGED <<now, kpiVars, calls, insVars, conc, trendVars, taskVars,
                   pipeVars, analysisVars, kw, anom, connVars, dataVars>>

\* --------------------------------------------------------- anomaly detection
\* The fewest clean rows the isolation forest and the envelope accept
MinRows == 10

\* n_neighbors of the local outlier factor, which is also its fewest rows
NNeighbors == 20

\* None, where a report may stand
Null == [null |-> TRUE]

Raised == [raised |-> TRUE]

Returned(report) == [raised |-> FALSE, report |-> report]

\* The numbers of rows of the dataset, all numeric in the columns analysed
RowCounts == {5, 15, 25}

\* The three estimators; any of them may fail inside the library (a singular
\* covariance matrix, a worker pool that does not start)
Estimators == {"IsolationForest", "EllipticEnvelope", "LocalOutlierFactor"}

\* round(total_anomalies / total_records * 100, 2), in hundredths
AnomalyPercentage(total_anomalies, total_records) ==
    (total_anomalies * 10000 * 2 + total_records) \div (2 * total_records)

\* What the data and the library do to one detection: the rows, the number
\* of rows predicted -1, and the estimators that fail
DetectionEnvs ==
    [rows : RowCounts, total_anomalies : 0..1, fails : SUBSET Estimators]

MethodReport(method, env) ==
    [method |-> method,
     total_records |-> env.rows,
     total_anomalies |-> env.total_anomalies,
     anomaly_percentage |-> AnomalyPercentage(env.total_anomalies, env.rows)]

detect_anomalies_isolation_forest(env) ==
    IF env.rows < MinRows \/ "IsolationForest" \in env.fails THEN Raised
    ELSE Returned(MethodReport("IsolationForest", env))

detect_anomalies_multivariate(env) ==
    IF env.rows < MinRows \/ "EllipticEnvelope" \in env.fails THEN Raised
    ELSE Returned(MethodReport("EllipticEnvelope", env))

detect_anomalies_local_outlier_factor(env) ==
    IF env.rows < NNeighbors \/ "LocalOutlierFactor" \in env.fails THEN Raised
    ELSE Returned(MethodReport("LocalOutlierFactor", env))

\* The isolation forest runs outside the inner try blocks: what it raises is
\* logged and raised again; the other two are replaced by None
detect_anomalies_ensemble(env) ==
    LET iso_results == detect_anomalies_isolation_forest(env)
        elliptic_results == detect_anomalies_multivariate(env)
        lof_results == detect_anomalies_local_outlier_factor(env)
    IN IF iso_results.raised THEN Raised
       ELSE Returned(
                [method |-> "Ensemble",
                 isolation_forest_results |-> iso_results.report,
                 elliptic_envelope_results |->
                     IF elliptic_results.raised THEN Null
                     ELSE elliptic_results.report,
                 lof_results |->
                     IF lof_results.raised THEN Null ELSE lof_results.report])

valid_methods == {"isolation_forest", "ensemble", "multivariate", "lof"}

\* The method names a request may carry
MethodNames == valid_methods \cup {"zscore"}

\* The branch of calculate_kpis_task on anomaly_method; the last one takes
\* every other name
DetectByMethod(anomaly_method, env) ==
    IF anomaly_method = "isolation_forest"
    THEN detect_anomalies_isolation_forest(env)
    ELSE IF anomaly_method = "ensemble" THEN detect_anomalies_ensemble(env)
    ELSE IF anomaly_method = "multivariate"
    THEN detect_anomalies_multivariate(env)
    ELSE IF anomaly_method = "lof"
    THEN detect_anomalies_local_outlier_factor(env)
    ELSE detect_anomalies_isolation_forest(env)

\* calculate_kpis_task once the dataset is read and has the columns: the
\* anomaly_reports dict, the analytics_summary rows added and committed, and
\* the value returned. A report without 'anomaly_percentage' makes the
\* AnalyticsSummary constructor call raise KeyError after main_report is set.
calculate_kpis_task(request, env) ==
    LET outcome == DetectByMethod(request.anomaly_method, env)
        detected == request.detect_anomalies /\ ~outcome.raised
        summarised == detected
                      /\ "anomaly_percentage" \in DOMAIN outcome.report
        anomaly_reports ==
            [main_report |-> IF detected THEN outcome.report ELSE Null,
             error |-> request.detect_anomalies /\ ~summarised]
    IN [raised |-> FALSE,
        status |-> "success",
        detector |-> IF request.detect_anomalies THEN outcome ELSE Null,
        anomaly_detection |->
            IF request.detect_anomalies THEN anomaly_reports ELSE Null,
        analytics_summary |->
            (IF summarised THEN {"anomaly_detection"} ELSE {})
                \cup {"kpi_amount"}]

\* What the task raises when the dataset or its columns are missing
TaskRaised ==
    [raised |-> TRUE, status |-> "error", detector |-> Null,
     anomaly_detection |-> Null, analytics_summary |-> {}]

KPIAnalysisRequests ==
    [anomaly_method : MethodNames, detect_anomalies : BOOLEAN]

\* POST /datasets/{id}/calculate-kpis
CalculateKpisRoute ==
    /\ anom = NoCall
    /\ \E request \in KPIAnalysisRequests, has_client \in BOOLEAN :
         anom' =
             IF ~has_client
             THEN [op |-> "calculate_kpis", entry |-> "route",
                   request |-> request, pc |-> "rejected", status_code |-> 403]
             ELSE IF request.anomaly_method \notin valid_methods
             THEN [op |-> "calculate_kpis", entry |-> "route",
                   request |-> request, pc |-> "rejected", status_code |-> 400]
             ELSE [op |-> "calculate_kpis", entry |-> "route",
                   request |-> request, pc |-> "queued", status_code |-> 200]
    /\ UNCHANGED <<now, kpiVars, calls, insVars, conc, trendVars, taskVars,
                   pipeVars, analysisVars, kw, calc, connVars, dataVars>>

\* The task analysis.calculate_kpis sent to the queue by name, with the
\* arguments its signature takes
CalculateKpisSend ==
    /\ anom = NoCall
    /\ \E request \in KPIAnalysisRequests :
         anom' = [op |-> "calculate_kpis", entry |-> "worker",
                  request |-> request, pc |-> "queued", status_code |-> 0]
    /\ UNCHANGED <<now, kpiVars, calls, insVars, conc, trendVars, taskVars,
                   pipeVars, analysisVars, kw, calc, connVars, dataVars>>

\* A worker runs the task
CalculateKpisTask ==
    /\ anom # NoCall
    /\ anom.pc = "queued"
    /\ \E env \in DetectionEnvs, dataset_found \in BOOLEAN,
          columns_found \in BOOLEAN :
         anom' = [op |-> "calculate_kpis", entry |-> anom.entry,
                  request |-> anom.request, pc |-> "done",
                  status_code |-> anom.status_code, env |-> env,
                  result |-> IF dataset_found /\ columns_found
                             THEN calculate_kpis_task(anom.request, env)
                             ELSE TaskRaised]
    /\ UNCHANGED <<now, kpiVars, calls, insVars, conc, trendVars, taskVars,
                   pipeVars, analysisVars, kw, calc, connVars, dataVars>>

\* The response or the result is read
CalculateKpisDone ==
    /\ anom # NoCall
    /\ anom.pc \in {"rejected", "done"}
    /\ anom' = NoCall
    /\ UNCHANGED <<now, kpiVars, calls, insVars, conc, trendVars, taskVars,
                   pipeVars, analysisVars, kw, calc, connVars, dataVars>>

\* ------------------------------------------------------------ data connectors
\* retry_kwargs of ConnectorTask: the retries of a task that raises
MaxRetries == 3

\* The connector of the run requests, and an id that no connector has
ConnectorIds == {1, 2}

\* The data source as create_connector leaves it
IdleSource == [status |-> "idle", last_run_at |-> "None"]

\* The task that stands at position t of the tasks accepted
IngestTask(task_id) ==
    [task_id |-> task_id, pc |-> "queued", retries |-> 0, outcome |-> "none"]

\* POST /connectors/{id}/run: 404 for no connector, 403 for a user of another
\* client, 409 for a connector whose status is 'processing'; otherwise
\* run_connector sends ingest_source to the queue and the answer is 202
RunDataConnector ==
    /\ Len(ingest.tasks) < MaxIngests
    /\ \E connector_id \in ConnectorIds, permitted \in BOOLEAN :
         IF connector_id # 1
         THEN ingest' = [ingest EXCEPT !.status_code = 404]
         ELSE IF ~permitted
         THEN ingest' = [ingest EXCEPT !.status_code = 403]
         ELSE IF source.status = "processing"
         THEN ingest' = [ingest EXCEPT !.status_code = 409]
         ELSE ingest' =
                  [tasks |-> Append(ingest.tasks,
                                    IngestTask(Len(ingest.tasks) + 1)),
                   status_code |-> 202]
    /\ UNCHANGED <<now, kpiVars, calls, insVars, conc, trendVars, taskVars,
                   pipeVars, analysisVars, kw, calc, anom, source, etl, dataVars>>

\* ingest_source up to its first commit: the source is loaded and its status
\* set to 'processing'
IngestStart ==
    \E t \in 1..Len(ingest.tasks) :
        /\ ingest.tasks[t].pc \in {"queued", "retry"}
        /\ source' = [source EXCEPT !.status = "processing"]
        /\ ingest' = [ingest EXCEPT !.tasks[t].pc = "started"]
        /\ UNCHANGED <<now, kpiVars, calls, insVars, conc, trendVars,
                       taskVars, pipeVars, analysisVars, kw, calc, anom, etl, dataVars>>

\* The row ingest_source adds to etl_history
NewEtlRecord(task_id) ==
    [dataset_id |-> "None", task_id |-> task_id, status |-> "PENDING",
     step |-> "Iniciando ingesta de conector", completed_at |-> "None"]

\* etl_history.dataset_id is declared nullable=False: the INSERT of a row
\* without a dataset fails with an IntegrityError at the commit
EtlInsertAccepted(row) == row.dataset_id # "None"

\* What meets the rest of a run: the outcome of validate_connector_config
\* (it reads the template file of the connector type), whether writing the
\* CSV file raises, and whether the session takes a commit after a flush
\* that failed or asks for a rollback first
IngestEnvs ==
    [is_valid : BOOLEAN, write_fails : BOOLEAN, session_usable : BOOLEAN]

\* ingest_source from the etl_history row to its return or raise: the source
\* row and the etl_history table as committed, and how the run ended
IngestBody(src, table, task_id, env) ==
    LET etl_record == NewEtlRecord(task_id)
        failed_record == [etl_record EXCEPT !.status = "FAILED",
                                            !.completed_at = "utcnow"]
    IN IF ~EtlInsertAccepted(etl_record)
       THEN \* the handler sets the fields and commits in a session whose
            \* flush failed; the record is no longer pending
            [source |-> IF env.session_usable
                        THEN [src EXCEPT !.status = "error"] ELSE src,
             etl |-> table, outcome |-> "raised"]
       ELSE IF ~env.is_valid
       THEN [source |-> [src EXCEPT !.status = "error"],
             etl |-> Append(table, failed_record), outcome |-> "failed"]
       ELSE IF env.write_fails
       THEN [source |-> [src EXCEPT !.status = "error"],
             etl |-> Append(table, failed_record), outcome |-> "raised"]
       ELSE [source |-> [status |-> "idle", last_run_at |-> "utcnow"],
             etl |-> Append(table,
                            [etl_record EXCEPT !.status = "SUCCESS",
                                               !.step = "Ingesta completada",
                                               !.completed_at = "utcnow"]),
             outcome |-> "success"]

\* autoretry_for = (Exception,): a run that raises is sent again until the
\* retries are used up
AfterRun(task, outcome) ==
    IF outcome = "raised" /\ task.retries < MaxRetries
    THEN [task EXCEPT !.pc = "retry", !.retries = @ + 1, !.outcome = outcome]
    ELSE [task EXCEPT !.pc = "done", !.outcome = outcome]

\* ingest_source after its first commit
IngestFinish ==
    \E t \in 1..Len(ingest.tasks), env \in IngestEnvs :
        /\ ingest.tasks[t].pc = "started"
        /\ \E r \in {IngestBody(source, etl, ingest.tasks[t].task_id, env)} :
             /\ source' = r.source
             /\ etl' = r.etl
             /\ ingest' = [ingest EXCEPT
                               !.tasks[t] = AfterRun(ingest.tasks[t], r.outcome)]
        /\ UNCHANGED <<now, kpiVars, calls, insVars, conc, trendVars,
                       taskVars, pipeVars, analysisVars, kw, calc, anom, dataVars>>

\* ------------------------------------------------- process_new_texts, again
\* A text one character longer than the text_field column keeps
LongText == [i \in 1..TextFieldLen + 1 |-> "x"]

\* The data of the rows that may arrive: a text under each of the three keys
\* the task reads, and a text longer than the column
ArrivingData ==
    { [text |-> <<"h", "i">>, comment |-> <<>>, description |-> <<>>],
      [text |-> <<>>, comment |-> <<"n", "o">>, description |-> <<>>],
      [text |-> <<>>, comment |-> <<>>, description |-> <<"s", "i">>],
      [text |-> LongText, comment |-> <<>>, description |-> <<>>] }

\* Rows with their text under 'text', and a row without any text
PlainData ==
    { [text |-> <<"h", "i">>, comment |-> <<>>, description |-> <<>>],
      [text |-> <<"y", "o">>, comment |-> <<>>, description |-> <<>>],
      [text |-> <<>>, comment |-> <<>>, description |-> <<" ">>] }

\* process_incoming_data stores a record; each of the data arrives once, and
\* not while the loop of the task runs
ArriveText(kinds) ==
    /\ textTask.pc # "loop"
    /\ Len(processed_data) < Len(ProcessedData) + MaxArrivals
    /\ \E data \in kinds :
         /\ \A k \in 1..Len(processed_data) :
                <<processed_data[k].text, processed_data[k].comment,
                  processed_data[k].description>>
                    # <<data.text, data.comment, data.description>>
         /\ processed_data' =
                Append(processed_data,
                       [id |-> Len(processed_data) + 1, text |-> data.text,
                        comment |-> data.comment,
                        description |-> data.description])
    /\ UNCHANGED <<now, kpiVars, calls, insVars, conc, trendVars, taskVars,
                   pipeVars, analysisVars, kw, calc, anom, connVars>>

\* The task is invoked again after a run that returned or raised, while
\* text_summary has fewer than `cap` rows
TextAgain(cap) ==
    /\ textTask.pc \in {"done", "failed"}
    /\ Len(text_summary) < cap
    /\ textTask' = NoTextTask
    /\ UNCHANGED <<now, kpiVars, calls, insVars, conc, trendVars, taskVars,
                   text_summary, trendTask, pipeline, analysisVars, kw, calc,
                   anom, connVars, dataVars>>

\* The query of a run answers
StartTextTaskOk == StartTextTaskWith(TextRunLimit) /\ textTask'.pc # "failed"

\* A record of the loop is analysed and its row committed
TextStepOk == TextStep /\ textTask'.processed = textTask.processed + 1

\* ------------------------------------ generate_recent_insights, one client
\* How a read of the repository ends: its rows come back; building the
\* dictionaries raises (float() of a NULL kpi_value), the session untouched;
\* or the statement itself fails, which leaves the transaction of the
\* session aborted. Every _get_* method answers [] to either failure and
\* none of them rolls back.
ReadKinds == {"ok", "conversion", "statement"}

\* The three reads in the order generate_insights_for_client makes them: in
\* an aborted transaction every later statement fails as well
ReadOutcomes ==
    { reads \in [1..3 -> ReadKinds] :
        \A i, j \in 1..3 :
            (i < j /\ reads[i] = "statement") => reads[j] = "statement" }

\* A read that hands on its rows whether it failed or not
PulledStale(kind, data) == data

\* What a _get_* method returns: the rows, or [] from its except branch
Pulled(kind, data) == IF kind = "ok" THEN data ELSE <<>>

SessionAborted(reads) == \E i \in 1..3 : reads[i] = "statement"

\* The rows the repository holds for the client when the loop reaches it
RecentTexts == {<<>>, TextDataOf(7, 3, 0)}

RecentKpis == {<<>>, VentasData(100, 50, 2)}

\* The dict generate_insights_for_client returns, generated_at added
InsightNow(insight, t) ==
    [client_id |-> insight.client_id, summary_text |-> insight.summary_text,
     key_findings |-> insight.key_findings, risk_level |-> insight.risk_level,
     opportunity_level |-> insight.opportunity_level,
     metrics |-> insight.metrics, generated_at |-> t]

\* One iteration of the loop of generate_recent_insights: the three reads,
\* the analysis, persist_insight in the same session, and the entry appended
\* to the results
RecentInsightStep ==
    /\ gen = NoCall
    /\ \E client \in {DefaultClient}, reads \in ReadOutcomes,
          text_data \in RecentTexts, kpi_data \in RecentKpis,
          fail \in FailPoints :
         LET a == InsightNow(
                      generate_insights_for_client(
                          client, Pulled(reads[1], text_data),
                          Pulled(reads[2], kpi_data), Pulled(reads[3], <<>>)),
                      now)
             persist_fail == IF SessionAborted(reads) THEN "lookup" ELSE fail
         IN \E existing \in FetchOne(InsightMatches(View(ai_insights, insTxn), a)) :
              \E r \in {persist_insight(ai_insights, insTxn, a, existing,
                                        persist_fail)} :
                 /\ ai_insights' = r.table
                 /\ insTxn' = r.txn
                 /\ gen' = [op |-> "generate_recent_insights",
                            reads |-> reads, fail |-> fail,
                            stored |-> IF existing = 0 THEN NoCall
                                       ELSE ai_insights[existing],
                            insight |-> a,
                            entry |-> InsightBatchEntry(client, r.ret, a)]
    /\ UNCHANGED <<now, kpiVars, calls, insLast, insLatest, conc, trendVars,
                   taskVars, pipeVars, sent, svc, det, moreVars>>

\* ------------------------------------------------------- the specifications
Init ==
    /\ now = 0
    /\ kpi_summary = <<>>
    /\ kpiTxn = <<>>
    /\ kpiLast = NoCall
    /\ kpiPrev = NoCall
    /\ calls = 0
    /\ trend_signals = <<>>
    /\ trendLast = NoCall
    /\ trendPre = <<>>
    /\ trendRuns = 0
    /\ ai_insights = <<>>
    /\ insTxn = <<>>
    /\ insLast = NoCall
    /\ insLatest = {}
    /\ conc = [s \in Sessions |-> Idle]
    /\ kpiBatch = NoBatch
    /\ insBatch = NoBatch
    /\ batchRuns = 0
    /\ text_summary = <<>>
    /\ textTask = NoTextTask
    /\ trendTask = NoTrendTask
    /\ pipeline = "off"
    /\ sent = IdleSent
    /\ svc = IdleSvc
    /\ gen = NoCall
    /\ det = NoCall
    /\ kw = NoCall
    /\ calc = NoCall
    /\ anom = NoCall
    /\ source = IdleSource
    /\ etl = <<>>
    /\ ingest = [tasks |-> <<>>, status_code |-> 0]
    /\ processed_data = ProcessedData

\* Persist calls made one after another as time passes
Next == PersistKpi \/ PersistInsight \/ Tick

Spec == Init /\ [][Next]_vars

\* The two tasks running persist_insight on sessions of their own, their
\* statements interleaved
NextInsightConc ==
    \/ \E s \in Sessions :
          InsightBegin(s) \/ InsightLookup(s) \/ InsightExecute(s)
              \/ InsightCommit(s) \/ InsightFail(s)
    \/ Tick

SpecInsightConc == Init /\ [][NextInsightConc]_vars

\* The two batch tasks, each on a session of its own
NextBatch ==
    \/ StartKpiBatch \/ KpiBatchStep \/ KpiBatchFinish
    \/ StartInsightBatch \/ InsightBatchStep \/ InsightBatchFinish

SpecBatch == Init /\ [][NextBatch]_vars

\* One pipeline run
NextPipeline ==
    PipelineStart \/ PipelineCompute \/ PipelineSynthesize \/ PipelineInsights
        \/ PipelineEnd

SpecPipeline == Init /\ [][NextPipeline]_vars

\* Callers of the two sentiment analysers, one call at a time
NextSentiment ==
    SentCall \/ SentLaunch \/ SentExit \/ SentTimeout \/ SvcCall \/ SvcCheck \/ SvcAnswer
        \/ TakeResult

SpecSentiment == Init /\ [][NextSentiment]_vars

\* The same, where the analysers' own steps are taken when they can be: the
\* launch, the expiry of the subprocess timeout and the availability check.
\* Nothing makes the external model exit or answer.
SpecSentimentLive ==
    /\ SpecSentiment
    /\ WF_vars(SentLaunch)
    /\ WF_vars(SentTimeout)
    /\ WF_vars(SvcCheck)

\* The generator called over and over, on what one detection run stored
NextGenerate == DetectTrendsOnce \/ GenerateCall \/ GenerateDone

SpecGenerate == Init /\ [][NextGenerate]_vars

\* extract_keywords, called over and over
NextKeywords == KeywordsCall \/ KeywordsDone

SpecKeywords == Init /\ [][NextKeywords]_vars

\* detect_trends_for_sector, called over and over
NextDetect == DetectCall \/ DetectDone

SpecDetect == Init /\ [][NextDetect]_vars

\* Trend detection runs over a few days
NextTrend == DetectTrendsTask(MaxTrendRuns) \/ TrendDayPasses(MaxTrendDays)

SpecTrend == Init /\ [][NextTrend]_vars

\* The same, over one more day and run
NextTrendLong == DetectTrendsTask(MaxLongRuns) \/ TrendDayPasses(MaxLongDays)

SpecTrendLong == Init /\ [][NextTrendLong]_vars

\* compute_kpis_for_client over the frames of a period
NextCompute == ComputeKpisCall \/ ComputeKpisDone

SpecCompute == Init /\ [][NextCompute]_vars

\* Requests for KPIs with anomaly detection, by the route and by the queue
NextAnomaly ==
    CalculateKpisRoute \/ CalculateKpisSend \/ CalculateKpisTask
        \/ CalculateKpisDone

SpecAnomaly == Init /\ [][NextAnomaly]_vars

\* Run requests for one connector and the workers that take its tasks
NextConnector == RunDataConnector \/ IngestStart \/ IngestFinish

SpecConnector == Init /\ [][NextConnector]_vars

\* process_new_texts invoked again and again with a small limit, records of
\* every kind arriving in between
NextTexts ==
    ArriveText(ArrivingData) \/ StartTextTaskWith(TextRunLimit) \/ TextStep
        \/ TextFinish \/ TextAgain(MaxSummaries)

SpecTexts == Init /\ [][NextTexts]_vars

\* The same with records that hold their text under 'text' or hold none: the
\* task is invoked for ever, and neither the query nor the analysis of a
\* record fails for ever
NextTextsLive ==
    ArriveText(PlainData) \/ StartTextTaskWith(TextRunLimit) \/ TextStep
        \/ TextFinish \/ TextAgain(MaxTexts)

SpecTextsLive ==
    /\ Init
    /\ [][NextTextsLive]_vars
    /\ WF_vars(StartTextTaskWith(TextRunLimit))
    /\ SF_vars(StartTextTaskOk)
    /\ WF_vars(TextStep)
    /\ SF_vars(TextStepOk)
    /\ WF_vars(TextFinish)
    /\ WF_vars(TextAgain(MaxTexts))

\* generate_recent_insights reaching one client, time after time
NextRecent == RecentInsightStep \/ GenerateDone \/ Tick

SpecRecent == Init /\ [][NextRecent]_vars

\* -------------------------------------------------------------- claims
KpiTwice ==
    /\ kpiPrev.op = "persist_kpi"
    /\ kpiLast.op = "persist_kpi"
    /\ kpiPrev.args = kpiLast.args

\* C1: after two persist_kpi calls in sequence with the same (client_id,
\* kpi_name, period_start, period_end, value), the second of which returned
\* True, kpi_summary holds exactly one row for that identity key, with that
\* value, and its calculated_at is the time of the second call.
C1_KpiIdempotent ==
    (KpiTwice /\ kpiLast.ret) =>
        /\ Cardinality(KpiMatches(kpi_summary, kpiLast.args)) = 1
        /\ \A i \in KpiMatches(kpi_summary, kpiLast.args) :
             /\ kpi_summary[i].calculated_at = kpiLast.at
             /\ kpi_summary[i].kpi_value = kpiLast.args.kpi_value

\* Two successful identical calls at different times
C1_Witness ==
    /\ KpiTwice
    /\ kpiPrev.ret
    /\ kpiLast.ret
    /\ kpiPrev.at < kpiLast.at

\* The rows of ai_insights a client has for a calendar day
InsightKeyRows(tbl, client, day) ==
    {i \in 1..Len(tbl) : tbl[i].client_id = client /\ DateOf(tbl[i].generated_at) = day}

\* The rows of ai_insights of a client
InsightRowsOf(client) ==
    {i \in 1..Len(ai_insights) : ai_insights[i].client_id = client}

\* The content persist_insight writes on insert and on update alike
InsightContent(r) ==
    <<r.summary_text, r.key_findings, r.risk_level, r.opportunity_level, r.metrics>>

\* C4: under sequential persist_insight calls, ai_insights holds at most one
\* row per (client_id, calendar day of generated_at), and the row of a key
\* carries the summary, key findings, levels and metrics of the last call
\* for that key that returned True.
C4_OneInsightPerClientDay ==
    /\ \A client \in InsightClients, day \in 0..DateOf(now) :
         Cardinality(InsightKeyRows(ai_insights, client, day)) <= 1
    /\ \A e \in insLatest :
         /\ InsightKeyRows(ai_insights, e.client_id, e.day) # {}
         /\ \A i \in InsightKeyRows(ai_insights, e.client_id, e.day) :
              InsightContent(ai_insights[i]) = InsightContent(e.data)

\* A later call on the same day replaced the content of the client's row
C4_Witness ==
    /\ insLast.op = "persist_insight"
    /\ insLast.ret
    /\ \E i \in InsightKeyRows(ai_insights, insLast.args.client_id, DateOf(insLast.at)) :
         /\ ai_insights[i].generated_at < insLast.at
         /\ InsightContent(ai_insights[i]) = InsightContent(insLast.args)

\* C5: when the batch task and the recompute task run persist_insight at
\* the same time on sessions of their own, ai_insights still holds at most
\* one row per (client_id, calendar day).
C5_ConcurrentOnePerClientDay ==
    \A client \in InsightClients :
        \A i, j \in InsightRowsOf(client) :
            DateOf(ai_insights[i].generated_at) = DateOf(ai_insights[j].generated_at)
                => i = j

\* What a persist call promises its caller: it does not raise; when a
\* database call failed it returned False and rolled the transaction back;
\* when it returned True nothing failed and nothing is left uncommitted
PersistOutcomeSafe(last, txn) ==
    /\ ~last.raised
    /\ last.fail # "none" => (~last.ret /\ txn = <<>>)
    /\ last.ret => (last.fail = "none" /\ txn = <<>>)

\* C9: persist_kpi and persist_insight never raise: a failing lookup,
\* insert, update or commit ends in a rollback and the return value False,
\* and True is returned only once the row is committed.
C9_PersistNeverRaises ==
    /\ kpiLast.op = "persist_kpi" =>
         /\ PersistOutcomeSafe(kpiLast, kpiTxn)
         /\ kpiLast.ret =>
              \E i \in KpiMatches(kpi_summary, kpiLast.args) :
                 /\ kpi_summary[i].kpi_value = kpiLast.args.kpi_value
                 /\ kpi_summary[i].calculated_at = kpiLast.at
    /\ insLast.op = "persist_insight" =>
         /\ PersistOutcomeSafe(insLast, insTxn)
         /\ insLast.ret =>
              \E i \in InsightMatches(ai_insights, insLast.args) :
                 InsightContent(ai_insights[i]) = InsightContent(insLast.args)

\* A persist_kpi call whose commit failed and a persist_insight call whose
\* insert failed
C9_Witness ==
    /\ kpiLast.op = "persist_kpi"
    /\ kpiLast.fail = "commit"
    /\ ~kpiLast.ret
    /\ insLast.op = "persist_insight"
    /\ insLast.fail = "write"
    /\ ~insLast.ret

\* What the per-client loop of a batch task keeps: one entry per client
\* gone through, in the order of the clients; the entry of a client whose
\* processing raised has status "error"; the loop ends only once every
\* client has its entry; no client's exception makes the task fail
BatchLoopSafe(b) ==
    /\ b.pc \in {"loop", "done"} => Len(b.results) = b.idx - 1
    /\ \A i \in 1..Len(b.results) : b.results[i].client_id = b.client_ids[i]
    /\ \A i \in b.raised : i <= Len(b.results) /\ b.results[i].status = "error"
    /\ b.pc = "done" => Len(b.results) = Len(b.client_ids)
    /\ b.pc = "failed" => b.raised = {}

\* C7: in generate_recent_insights and compute_kpis_for_recent an exception
\* raised while processing one client does not stop the loop: every active
\* client gets exactly one entry in results, the failing client's entry has
\* status "error", and the clients after it are processed.
C7_BatchErrorIsolation ==
    /\ BatchLoopSafe(insBatch)
    /\ BatchLoopSafe(kpiBatch)

\* In both tasks the first of two clients raised and the second succeeded
C7_Witness ==
    /\ insBatch.pc = "done"
    /\ insBatch.raised = {1}
    /\ Len(insBatch.results) = 2
    /\ insBatch.results[2].status = "success"
    /\ kpiBatch.pc = "done"
    /\ kpiBatch.raised = {1}
    /\ Len(kpiBatch.results) = 2
    /\ kpiBatch.results[2].status = "success"
    /\ kpiBatch.results[2].kpis_persisted > 0

\* The rows of a (sector, term) pair
PairRows(tbl, sector, term) ==
    {i \in 1..Len(tbl) : tbl[i].sector = sector /\ tbl[i].term = term}

\* The artifacts the computations of the run reported as persisted are in
\* the committed tables, and no computation has a write left uncommitted
ComputeCommitted ==
    /\ kpiTxn = <<>>
    /\ \A e \in 1..Len(kpiBatch.results) :
         Cardinality({i \in 1..Len(kpi_summary) :
                        /\ kpi_summary[i].client_id = kpiBatch.results[e].client_id
                        /\ kpi_summary[i].period_end = kpiBatch.period_end})
            >= kpiBatch.results[e].kpis_persisted
    /\ Len(text_summary) = textTask.before + textTask.processed
    /\ \A d \in 1..Len(trendTask.detail) :
         "status" \notin DOMAIN trendTask.detail[d] =>
            /\ trendTask.detail[d].trends_persisted =
                  Cardinality({i \in DOMAIN trendTask.df : ~trendTask.fails[i]})
            /\ \A i \in DOMAIN trendTask.df :
                 ~trendTask.fails[i] =>
                    \E j \in PairRows(trend_signals, trendTask.df[i].sector,
                                      trendTask.df[i].term) :
                       /\ trend_signals[j].delta_pct = trendTask.df[i].delta_pct
                       /\ trend_signals[j].frequency = trendTask.df[i].count_short

\* The synthesis of the run has started
SynthesisStarted == insBatch.pc # "idle"

TrendLookupUnambiguous ==
    \A sector \in Sectors, term \in Terms :
        Cardinality({i \in PairRows(trend_signals, sector, term) :
                        trend_signals[i].period_end >= now - RecentTicks}) <= 1

\* The rows of the last run's frame that persist_trends wrote and committed
TrendPersisted ==
    IF trendLast.op = "persist_trends" /\ ~trendLast.raised
    THEN {i \in DOMAIN trendLast.df : ~trendLast.fails[i]}
    ELSE {}

\* C2: when a detection run persists a (sector, term) whose only row was
\* inserted by a run at most 3 days earlier, trend_signals still holds
\* exactly one row for the pair, and it carries the frequency and delta_pct
\* of the later run.
C2_TrendRerun ==
    \A i \in TrendPersisted :
        LET row == trendLast.df[i]
            before == PairRows(trendPre, row.sector, row.term)
        IN (/\ Cardinality(before) = 1
            /\ \A j \in before :
                 trendLast.at - trendPre[j].period_end <= RecentTicks)
           => /\ PairRows(trend_signals, row.sector, row.term) = before
              /\ \A j \in before :
                   /\ trend_signals[j].frequency = row.count_short
                   /\ trend_signals[j].delta_pct = row.delta_pct

\* A second run, a day or more after the first one, measured other values
C2_Witness ==
    \E i \in TrendPersisted :
        LET row == trendLast.df[i]
            before == PairRows(trendPre, row.sector, row.term)
        IN /\ Cardinality(before) = 1
           /\ \A j \in before :
                /\ trendPre[j].period_end < trendLast.at
                /\ trendLast.at - trendPre[j].period_end <= RecentTicks
                /\ trendPre[j].frequency # row.count_short
                /\ trendPre[j].delta_pct # row.delta_pct

\* C3: when a run persists a (sector, term) detected less than 3 days after
\* its previous detection (detected_at of an earlier insert or update), no
\* new row is inserted, and the pair has at most one row.
C3_NoDuplicateWithinRecency ==
    \A i \in TrendPersisted :
        LET row == trendLast.df[i]
            before == PairRows(trendPre, row.sector, row.term)
        IN (\E j \in before :
               trendLast.at - trendPre[j].detected_at < RecentTicks)
           => /\ PairRows(trend_signals, row.sector, row.term) = before
              /\ Cardinality(before) <= 1

C10_CommitFailureCaught ==
    (trendLast.op = "persist_trends" /\ trendLast.commitFails) =>
        /\ ~trendLast.raised
        /\ trendLast.txn = <<>>

\* The external model call failed: timeout, missing executable, another
\* error at launch, or a non-zero exit code
OllamaFailed(outcome) ==
    \/ outcome.kind \in {"timeout", "missing", "other_error"}
    \/ outcome.kind = "exit" /\ outcome.returncode # 0

\* C11: for a non-empty text and any failure of the external model call,
\* analyze_sentiment returns the rule-based result and raises nothing.
C11_FallbackOnFailure ==
    (sent.pc = "returned" /\ ~IsBlank(sent.text) /\ OllamaFailed(sent.outcome)) =>
        /\ ~sent.raised
        /\ sent.result = rule_based_sentiment(sent.text)

\* C12: when the Ollama service is unavailable or its call raises,
\* analyze_sentiment_with_ollama(use_ollama=True) returns the rule-based
\* fallback result, whose method is "fallback" and not "ollama".
C12_UnavailableFallsBack ==
    (/\ svc.pc = "returned"
     /\ svc.use_ollama
     /\ svc.outcome.kind \in {"unavailable", "chat_error"}) =>
        /\ svc.result.method = "fallback"
        /\ svc.result = analyze_sentiment_fallback(svc.text)

\* C13: every call of analyze_sentiment and of analyze_sentiment_with_ollama
\* eventually returns, even if the external model never responds.
C13_AlwaysReturns ==
    /\ (sent.pc # "idle") ~> (sent.pc = "returned")
    /\ (svc.pc # "idle") ~> (svc.pc = "returned")

\* C20: the result of analyze_sentiment has a polarity in [-1.0, 1.0] and
\* the label "positive" exactly when the polarity is above 0.2, "negative"
\* exactly when it is below -0.2 and "neutral" otherwise; a text that is
\* empty or white space only gives neutral with polarity 0.0.
C20_PolarityAndLabel ==
    (sent.pc = "returned" /\ ~sent.raised) =>
        LET p == sent.result.polarity
            label == sent.result.label
        IN /\ p.den > 0
           /\ -p.den <= p.num /\ p.num <= p.den
           /\ label \in {"positive", "negative", "neutral"}
           /\ label = "positive" <=> 5 * p.num > p.den
           /\ label = "negative" <=> 5 * p.num < -p.den
           /\ IsBlank(sent.text) => (label = "neutral" /\ p.num = 0)

\* The rule-based strategy answered a text of two positive words and a
\* negative one
C20_Witness ==
    /\ sent.pc = "returned"
    /\ ~sent.raised
    /\ sent.outcome.kind = "timeout"
    /\ sent.result.polarity = Frac(1, 3)
    /\ sent.result.label = "positive"

\* C14: when the text, KPI and trend pulls are all empty,
\* generate_insights_for_client returns risk_level "unknown",
\* opportunity_level "unknown" and no key finding; when one of the pulls is
\* not empty, neither level is "unknown".
C14_UnknownOnlyWithoutData ==
    gen # NoCall =>
        IF gen.text_data = <<>> /\ gen.kpi_data = <<>> /\ gen.trend_data = <<>>
        THEN /\ gen.insight.risk_level = "unknown"
             /\ gen.insight.opportunity_level = "unknown"
             /\ gen.insight.key_findings = <<>>
        ELSE /\ gen.insight.risk_level \in {"low", "medium", "high", "critical"}
             /\ gen.insight.opportunity_level \in {"low", "medium", "high"}

\* A call that found KPI values only
C14_Witness ==
    /\ gen # NoCall
    /\ gen.text_data = <<>> /\ gen.trend_data = <<>>
    /\ Len(gen.kpi_data) = 1
    /\ gen.insight.risk_level = "low"

\* The pulled signals the Trend Engine stored as rising
PulledRising ==
    {i \in 1..Len(gen.trend_data) :
        \E k \in 1..Len(trend_signals) :
            /\ trend_signals[k].sector = gen.trend_data[i].sector
            /\ trend_signals[k].term = gen.trend_data[i].term
            /\ trend_signals[k].trend_status = "rising"}

\* C15: when the trend signals the generator pulled include one the Trend
\* Engine classified and stored as rising, the trend finding is an
\* opportunity finding about the most frequent of these signals, of
\* strength 3 if its frequency is above 5 and of strength 2 otherwise, and
\* it is among the key findings.
C15_RisingIsOpportunity ==
    (gen # NoCall /\ PulledRising # {}) =>
        LET trend_insight == analyze_emerging_trends(gen.trend_data)
            top == CHOOSE i \in PulledRising :
                      \A j \in PulledRising :
                         gen.trend_data[i].frequency >= gen.trend_data[j].frequency
        IN /\ trend_insight.is_opportunity
           /\ trend_insight.finding.count = gen.trend_data[top].frequency
           /\ trend_insight.strength =
                  IF gen.trend_data[top].frequency > 5 THEN 3 ELSE 2
           /\ \E k \in 1..Len(gen.insight.key_findings) :
                  gen.insight.key_findings[k] = trend_insight.finding

\* low < medium < high < critical
RiskRank(level) ==
    CASE level = "low" -> 1
      [] level = "medium" -> 2
      [] level = "high" -> 3
      [] level = "critical" -> 4
      [] OTHER -> 0

NegativeCount(text_data) ==
    Cardinality({i \in 1..Len(text_data) : text_data[i].sentiment = "negative"})

\* The share of negative rows lies between 40 % and 80 %
ShareInRange(text_data) ==
    /\ text_data # <<>>
    /\ 100 * NegativeCount(text_data) >= 40 * Len(text_data)
    /\ 100 * NegativeCount(text_data) <= 80 * Len(text_data)

\* C16: with the KPI and trend pulls held fixed, for two negative-sentiment
\* shares p <= q between 40 % and 80 % the risk_level computed at q is not
\* lower than the one computed at p (low < medium < high < critical).
C16_RiskMonotonic ==
    (gen # NoCall /\ ShareInRange(gen.text_data)) =>
        \A more \in TextPulls :
            (/\ ShareInRange(more)
             /\ NegativeCount(gen.text_data) * Len(more)
                    <= NegativeCount(more) * Len(gen.text_data)) =>
                RiskRank(generate_insights_for_client(
                             DefaultClient, more, gen.kpi_data,
                             gen.trend_data).risk_level)
                    >= RiskRank(gen.insight.risk_level)

\* C17: for 10 text records, 7 positive and 3 negative, one KPI with the
\* values 100, 100, 100, 100, 50 (50 the latest) and no trend signal, the
\* KPI finding is a risk of severity 2, the sentiment finding an
\* opportunity of strength 2, both are key findings, risk_level is "low"
\* or "medium" and opportunity_level is "medium".
C17_EndToEnd ==
    (/\ gen # NoCall
     /\ gen.text_data = TextDataOf(7, 3, 0)
     /\ gen.kpi_data = VentasData(50, 100, 5)
     /\ gen.trend_data = <<>>) =>
        LET kpi_insight == analyze_kpi_trend(gen.kpi_data)
            sentiment_insight == analyze_sentiment_pattern(gen.text_data)
        IN /\ kpi_insight.is_risk /\ kpi_insight.severity = 2
           /\ sentiment_insight.is_opportunity /\ sentiment_insight.strength = 2
           /\ gen.insight.key_findings =
                  <<sentiment_insight.finding, kpi_insight.finding>>
           /\ gen.insight.risk_level \in {"low", "medium"}
           /\ gen.insight.opportunity_level = "medium"

C17_Witness ==
    /\ gen # NoCall
    /\ gen.text_data = TextDataOf(7, 3, 0)
    /\ gen.kpi_data = VentasData(50, 100, 5)
    /\ gen.trend_data = <<>>
    /\ gen.insight.risk_level = "medium"
    /\ Len(gen.insight.key_findings) = 2

\* C18: a term is labelled rising when its delta_pct is at least +50, falling
\* when it is at most -30 and stable otherwise, and the frame
\* detect_trends_for_sector returns holds a row for a term exactly when the
\* term's count over the long window is at least 2 and its label is rising
\* or falling; the row carries that label.
C18_SignificantTermsReturned ==
    det # NoCall =>
        \A term \in Terms :
            LET short == ShortWindow(det.rows)
                cl == CountTerm(det.rows, term)
                d == DeltaPct(CountTerm(short, term), Len(short), cl,
                              Len(det.rows), det.err[term])
                label == IF FloatGe(d, 50) THEN "rising"
                         ELSE IF FloatLe(d, -30) THEN "falling"
                         ELSE "stable"
                found == {i \in 1..Len(det.df) : det.df[i].term = term}
            IN IF cl >= 2 /\ label # "stable"
               THEN /\ Cardinality(found) = 1
                    /\ \A i \in found : det.df[i].trend_label = label
               ELSE found = {}

\* A frame with a term that rose by exactly 50 % and a term that fell
C18_Witness ==
    /\ det # NoCall
    /\ Len(det.df) = 2
    /\ \E i, j \in 1..2 :
         /\ det.df[i].trend_label = "rising" /\ det.df[i].delta_pct = 5000
         /\ det.df[j].trend_label = "falling"

Abs(n) == IF n < 0 THEN -n ELSE n

\* C19: the rows detect_trends_for_sector returns are ordered by the absolute
\* value of delta_pct, largest first: no row comes after a row of smaller
\* |delta_pct|.
C19_SortedByMagnitude ==
    det # NoCall =>
        \A i, j \in 1..Len(det.df) :
            i < j => Abs(det.df[i].delta_pct) >= Abs(det.df[j].delta_pct)

\* C30: every row detect_trends_for_sector returns (the short window lying
\* inside the long one) has count_long of at least 2 and count_short of at
\* most count_long, so its delta_pct comes from the division by the long
\* frequency and never from the branch for a long frequency of zero.
C30_ReturnedRowsHaveLongCount ==
    det # NoCall =>
        \A i \in 1..Len(det.df) :
            /\ det.df[i].count_long >= 2
            /\ det.df[i].count_short <= det.df[i].count_long
            /\ det.df[i].count_long = CountTerm(det.rows, det.df[i].term)
            /\ det.df[i].count_short =
                   CountTerm(ShortWindow(det.rows), det.df[i].term)

\* A returned row whose term occurs in the short window only
C30_Witness ==
    /\ det # NoCall
    /\ \E i \in 1..Len(det.df) :
         /\ det.df[i].count_short = det.df[i].count_long
         /\ det.df[i].count_long = 2
         /\ det.df[i].trend_label = "rising"

\* The place where a word comes first among the words found in the text
FirstFound(txt, word) ==
    CHOOSE i \in 1..Len(FindWords(txt)) :
        /\ FindWords(txt)[i] = word
        /\ \A j \in 1..(i - 1) : FindWords(txt)[j] # word

\* C21: for every text and every k >= 0, the rule-based extract_keywords
\* returns at most k keywords, none of them a stopword, each a word of the
\* text, in the order of decreasing frequency with words of equal frequency
\* in the order of their first occurrence; a text that is empty or all
\* whitespace gives the empty list.
C21_KeywordsRanked ==
    (kw # NoCall /\ (RuleBased(kw.outcome) \/ IsBlank(kw.text))) =>
        LET found == FindWords(kw.text)
            keywords == kw.keywords
        IN /\ Len(keywords) <= kw.max_keywords
           /\ \A i \in 1..Len(keywords) :
                 /\ keywords[i] \notin STOPWORDS
                 /\ Occurrences(found, keywords[i]) >= 1
           /\ \A i, j \in 1..Len(keywords) :
                 i < j =>
                    \/ Occurrences(found, keywords[i]) > Occurrences(found, keywords[j])
                    \/ /\ Occurrences(found, keywords[i]) = Occurrences(found, keywords[j])
                       /\ FirstFound(kw.text, keywords[i]) < FirstFound(kw.text, keywords[j])
           /\ IsBlank(kw.text) => keywords = <<>>

\* The more frequent word comes first although it occurs later
C21_Witness ==
    /\ kw # NoCall
    /\ RuleBased(kw.outcome)
    /\ kw.text = <<"delay", "Refund", "Refund">>
    /\ kw.keywords = <<"refund", "delay">>

\* The sum of the last month but one of the frame of the call
PreviousMonthSum ==
    MonthlySales(calc.df, SalesCol(calc.df),
                 LastMonth(FrameMonths(calc.df) \ {LastMonth(FrameMonths(calc.df))}))

LatestMonthSum ==
    MonthlySales(calc.df, SalesCol(calc.df), LastMonth(FrameMonths(calc.df)))

\* C22: compute_kpis_for_client sets sales_mom exactly when the frame has one
\* of the amount columns, its rows lie in at least two distinct months and the
\* sum of the previous month is not zero; the value is then
\* (latest - previous) / previous * 100.
C22_GrowthWhenPreviousNonZero ==
    calc # NoCall =>
        LET emitted == calc.kpis.sales_mom # <<>>
            due == /\ Columns(calc.df) \cap
                          {"amount", "sales", "value", "total", "price"} # {}
                   /\ Cardinality(FrameMonths(calc.df)) >= 2
                   /\ PreviousMonthSum # 0
        IN /\ emitted <=> due
           /\ emitted =>
                  calc.kpis.sales_mom[1].num * PreviousMonthSum =
                      (LatestMonthSum - PreviousMonthSum) * 100
                          * calc.kpis.sales_mom[1].den

\* The estimators that fail on the data and in the library of a detection
FailedEstimators(env) ==
    (IF env.rows < MinRows THEN {"IsolationForest", "EllipticEnvelope"} ELSE {})
        \cup (IF env.rows < NNeighbors THEN {"LocalOutlierFactor"} ELSE {})
        \cup env.fails

EnsembleResult(report, estimator) ==
    IF estimator = "IsolationForest" THEN report.isolation_forest_results
    ELSE IF estimator = "EllipticEnvelope"
    THEN report.elliptic_envelope_results
    ELSE report.lof_results

\* C23: an ensemble detection in which estimators fail still returns: the
\* report holds null for each estimator that failed and a result for each
\* one that did not.
C23_EnsembleSurvivesFailure ==
    (/\ anom # NoCall
     /\ anom.pc = "done"
     /\ ~anom.result.raised
     /\ anom.request.anomaly_method = "ensemble"
     /\ anom.request.detect_anomalies) =>
        /\ ~anom.result.detector.raised
        /\ \A estimator \in Estimators :
               (estimator \in FailedEstimators(anom.env))
                   <=> (EnsembleResult(anom.result.detector.report, estimator)
                            = Null)

\* C24: a request for anomaly detection whose method is none of the four
\* names is rejected where it enters, by the route and by the task alike, and
\* leaves no anomaly report and no anomaly_detection row.
C24_UnknownMethodRejected ==
    (/\ anom # NoCall
     /\ anom.request.detect_anomalies
     /\ anom.request.anomaly_method \notin valid_methods) =>
        /\ anom.entry = "route" => anom.pc = "rejected"
        /\ anom.pc = "done" =>
               /\ anom.result.raised
               /\ anom.result.anomaly_detection = Null
               /\ "anomaly_detection" \notin anom.result.analytics_summary

\* The status of the etl_history row of a task, "none" when it has no row
EtlStatusOf(table, task_id) ==
    IF \E i \in 1..Len(table) : table[i].task_id = task_id
    THEN table[CHOOSE i \in 1..Len(table) : table[i].task_id = task_id].status
    ELSE "none"

\* C25: whenever a run of ingest_source ends, by returning or by raising, the
\* data source is not left 'processing': after a success it is 'idle' with
\* last_run_at set and the run's etl_history row is SUCCESS; after an invalid
\* configuration or an exception it is 'error' and the row is FAILED.
C25_RunLeavesFinalStatus ==
    [][\A t \in 1..Len(ingest.tasks) :
           (ingest.tasks[t].pc = "started" /\ ingest'.tasks[t].pc # "started") =>
               \/ /\ ingest'.tasks[t].outcome = "success"
                  /\ source'.status = "idle"
                  /\ source'.last_run_at # "None"
                  /\ EtlStatusOf(etl', ingest.tasks[t].task_id) = "SUCCESS"
               \/ /\ ingest'.tasks[t].outcome \in {"failed", "raised"}
                  /\ source'.status = "error"
                  /\ EtlStatusOf(etl', ingest.tasks[t].task_id) = "FAILED"]_vars

\* The tasks of the connector that were accepted and have not ended
InProgress ==
    { t \in 1..Len(ingest.tasks) : ingest.tasks[t].pc # "done" }

\* C26: at most one ingest_source task of a connector is accepted and not yet
\* ended: while one is, a further run request gets 409 and adds no task.
C26_OneRunPerConnector == Cardinality(InProgress) <= 1

\* The text_summary rows, among the first n, that hold the text of a record
SummariesOf(record, n) ==
    { j \in 1..n :
        text_summary[j].text_field = Truncate(ExtractText(record)) }

\* C27: a record whose text_summary row was committed before a run of
\* process_new_texts started is not among the pending records of that run,
\* and no record has more than one row, under whichever key its text stands
\* and however long it is.
C27_SummarisedOnce ==
    /\ textTask.pc = "loop" =>
           \A i \in 1..Len(textTask.pending) :
               SummariesOf(textTask.pending[i], textTask.before) = {}
    /\ \A k \in 1..Len(processed_data) :
           Cardinality(SummariesOf(processed_data[k], Len(text_summary))) <= 1

\* The record of an id holds a text that is not blank
HoldsText(id) ==
    /\ id <= Len(processed_data)
    /\ ~IsBlank(ExtractText(processed_data[id]))

Summarised(id) ==
    /\ id <= Len(processed_data)
    /\ SummariesOf(processed_data[id], Len(text_summary)) # {}

\* C28: with process_new_texts invoked again and again with the same limit,
\* every record that holds a text which is not blank gets its text_summary
\* row in the end, whatever other records are pending.
C28_EveryTextSummarised ==
    \A id \in 1..(Len(ProcessedData) + MaxArrivals) :
        HoldsText(id) ~> Summarised(id)

\* The row of ai_insights for the client and the day of the last iteration
StoredToday ==
    { i \in 1..Len(ai_insights) :
        /\ ai_insights[i].client_id = gen.insight.client_id
        /\ DateOf(ai_insights[i].generated_at) = DateOf(gen.insight.generated_at) }

\* C29: when all three reads fail and no database call of persist_insight
\* fails on its own, the insight generated is the "unknown" one of an empty
\* repository, it is stored for the client and the day, in place of the one
\* stored before, and the client's entry has status "success".
C29_ReadFailuresPersistUnknown ==
    (/\ gen # NoCall
     /\ gen.op = "generate_recent_insights"
     /\ \A i \in 1..3 : gen.reads[i] # "ok"
     /\ gen.fail = "none") =>
        /\ gen.insight =
               InsightNow(generate_insights_for_client(
                              gen.insight.client_id, <<>>, <<>>, <<>>),
                          gen.insight.generated_at)
        /\ gen.insight.risk_level = "unknown"
        /\ gen.entry.status = "success"
        /\ StoredToday # {}
        /\ \A i \in StoredToday : ai_insights[i].risk_level = "unknown"

\* C29, amended: when all three reads fail, generate_insights_for_client
\* returns the "unknown" insight of an empty repository. If no statement
\* failed inside the session and no database call of persist_insight fails on
\* its own, the insight is stored for the client and the day in place of the
\* one stored before, and the entry has status "success"; if a statement
\* failed, persist_insight returns False, the entry has status
\* "failed_to_persist" and the insight stored before stays.
C29_UnknownPersistedUnlessAborted ==
    (/\ gen # NoCall
     /\ gen.op = "generate_recent_insights"
     /\ \A i \in 1..3 : gen.reads[i] # "ok") =>
        /\ gen.insight =
               InsightNow(generate_insights_for_client(
                              gen.insight.client_id, <<>>, <<>>, <<>>),
                          gen.insight.generated_at)
        /\ (~SessionAborted(gen.reads) /\ gen.fail = "none") =>
               /\ gen.entry.status = "success"
               /\ StoredToday # {}
               /\ \A i \in StoredToday : ai_insights[i].risk_level = "unknown"
        /\ SessionAborted(gen.reads) =>
               /\ gen.entry.status = "failed_to_persist"
               /\ gen.stored # NoCall =>
                      \E i \in StoredToday : ai_insights[i] = gen.stored

\* All three reads failed while the dictionaries were built, and the
\* "unknown" insight replaced an insight with levels stored the same day
C29_Witness ==
    /\ gen # NoCall
    /\ gen.op = "generate_recent_insights"
    /\ \A i \in 1..3 : gen.reads[i] = "conversion"
    /\ gen.fail = "none"
    /\ gen.stored # NoCall
    /\ gen.stored.risk_level # "unknown"
    /\ gen.entry.status = "success"
    /\ \A i \in StoredToday : ai_insights[i].risk_level = "unknown"

====
